---- MODULE Spec2Model ----
(***************************************************************************)
(* NoCapAI: the multi-layer verification pipeline (database cache, FAISS   *)
(* RAG search, live web search, LLM adjudication, persistence), the        *)
(* chunker, and the verdict extraction done by the clients (the browser    *)
(* extension's content script and the React ChatBox).                      *)
(*                                                                         *)
(* Three specifications share the module:                                  *)
(*   Spec         the pipeline run by concurrent requests                  *)
(*   SpecVerdict  extractVerdict applied to bounded answer texts           *)
(*   SpecChunk    chunk_text applied to bounded texts and chunk sizes      *)
(*   SpecFaults   the pipeline of one request with failing and hanging     *)
(*                external calls; FairSpec adds the fairness of its steps  *)
(*   SpecAdjudicate  verdict and confidence parsing of bounded LLM answers *)
(*   SpecRecovery the pipeline with a crash inside the paired write and    *)
(*                the reconciliation at startup                            *)
(*   SpecExtension  the extension's background worker handling context-    *)
(*                menu clicks                                              *)
(*   SpecChatBox  ChatBox's handleAnalyze and the views it is called from  *)
(*   SpecHistory  ChatBox from its mount, with the history load in flight  *)
(*   SpecModal    the content script's modal driven by messages and clicks *)
(*   SpecSearch   index.search applied to bounded indexes                  *)
(*   SpecRequest  ChatBox's session identifier and the requests it posts   *)
(*   SpecCacheDown  the pipeline with a store unreachable at the cache     *)
(*                lookup                                                   *)
(*   SpecCancel   the pipeline with callers that disconnect during the web *)
(*                tier                                                     *)
(* Texts are sequences of one-character strings, so that substring search, *)
(* case conversion and splitting are computed character by character.      *)
(***************************************************************************)
EXTENDS Integers, Sequences, FiniteSets, TLC

VARIABLES
    \* ---- pipeline (Spec) ----
    stage,          \* request -> stage of the pipeline
    question,       \* request -> sanitized claim text
    wpc,            \* request -> position inside the web-search tier
    results,        \* request -> search results (documents) still to scrape
    pending,        \* request -> chunks of the current document still to index
    position,       \* request -> FAISS position of the chunk being paired
    retrieved,      \* request -> latest retrieval result <<[pos, dist]>>
    gateDist,       \* request -> best distance seen by the threshold check (-1: none)
    context,        \* request -> context handed to the LLM
    source_type,    \* request -> tier tag of the response
    response,       \* request -> response returned to the caller
    error,          \* request -> error kind surfaced to the caller
    ragCalls,       \* request -> number of calls of RAG retrieve
    webCalls,       \* request -> number of calls of duckduckgo_search
    usable,         \* request -> number of search results scraped successfully
    answer,         \* request -> answer text generated by the LLM
    cacheCalls,     \* request -> number of calls of search_news_article
    llmCalls,       \* request -> number of calls of the LLM
    absorbed,       \* request -> failures absorbed by a stage and logged: {[stage, kind]}
    fake_news_logs, \* MongoDB: fake-news-detection audit entries
    news_articles,  \* MongoDB: saved chat messages (verification records)
    web_embeddings, \* MongoDB: chunk metadata, one per indexed chunk
    faiss,          \* FAISS web index: sequence of [embedding, chunk]
    writer,         \* holder of the writer lock around the paired write (0: free)
    \* ---- verdict extraction (SpecVerdict) ----
    text,           \* answer text given to the extractors
    variant,        \* the same text with one verdict token written in upper case
    extVerdict,     \* extension extractVerdict: [text, variant] -> result ("none" before the call)
    chatVerdict,    \* ChatBox extractVerdict: [text, variant] -> result ("none" before the call)
    \* ---- chunker (SpecChunk) ----
    content,        \* text given to chunk_text
    chunk_size,     \* maximum chunk size given to chunk_text
    chunks,         \* [done, out]: whether chunk_text has run, and its result
    \* ---- parsing of the LLM answer (SpecAdjudicate) ----
    llm_answer,     \* answer text to parse
    tier,           \* tier tag of the request the answer belongs to
    adjudged,       \* [done, record, response]: the saved record and the response built
    \* ---- crash and restart of the backend (SpecRecovery) ----
    serving,        \* the backend accepts requests
    crashes,        \* number of crashes so far
    rebuilds,       \* number of rebuilds of the FAISS index from MongoDB
    \* ---- extension background worker (SpecExtension) ----
    bpc,            \* click -> position of its onClicked handler
    message,        \* click -> action of the message being sent ("none" before the first)
    delivered,      \* click -> actions delivered to the content script, in order
    api,            \* click -> backend request: "none", "pending", "ok", "failed"
    sendFailed,     \* click -> actions whose sendMessageToContentScript threw
    listening,      \* the tab's content script has its onMessage listener
    calls,          \* click -> the calls of sendMessageToContentScript: [log, outcome]
    \* ---- ChatBox component (SpecChatBox) ----
    inputValue,     \* useState(''): text of the textarea
    selectedFile,   \* useState(null): "none", or the kind of the selected file
    isLoading,      \* useState(false)
    showResult,     \* useState(false)
    view,           \* the child AnimatePresence has mounted, with the state its element was rendered from
    in_flight,      \* axios.post calls of handleAnalyze not yet settled
    posted,         \* axios.post calls of handleAnalyze issued so far
    chatError,      \* useState(''): error
    history,        \* useState([]): results, most recent first
    analysis_history, \* localStorage item "analysis_history"
    currentResult,  \* useState(null): null, or the result shown
    closures,       \* per pending axios.post: the history its handleAnalyze closed over
    rejected,       \* axios.post calls of handleAnalyze that failed so far
    history_request, \* the axios.get of loadHistory: "pending" or "done"
    \* ---- content script (SpecModal) ----
    shadowRoot,     \* "null", or "root" once createModal attached a shadow root
    attached,       \* the element nocap-extension-root is in the document
    card,           \* the .card inside the shadow root: "none", "LOADING", "RESULT", "ERROR"
    threw,          \* functions of the content script that raised a TypeError
    events,         \* messages and clicks handled so far
    \* ---- vector index search (SpecSearch) ----
    flat_index,     \* the index searched: a sequence of entries with an embedding
    query_vector,   \* the embedding of the query
    top_k,          \* number of neighbours asked for
    neighbours,     \* [done, out]: the result of the search, once made
    \* ---- ChatBox's session and requests (SpecRequest) ----
    fake_news_session_id, \* localStorage item "fake_news_session_id" ("null": none)
    sessionId,      \* useState(''): sessionId
    generated,      \* calls of uuidv4 made by the mount effect so far
    mounts,         \* mounts of ChatBox (page loads) so far
    typed,          \* the inputValue of the mounted ChatBox
    chosen,         \* the selectedFile of the mounted ChatBox
    requests        \* axios.post calls awaiting their response: [endpoint, body, read]

pipeVars == <<stage, question, wpc, results, pending, position, retrieved, gateDist,
              context, source_type, response, error, ragCalls, webCalls, usable,
              answer, cacheCalls, llmCalls, absorbed, news_articles, fake_news_logs,
              web_embeddings, faiss, writer>>
verdictVars == <<text, variant, extVerdict, chatVerdict>>
chunkVars == <<content, chunk_size, chunks>>
adjVars == <<llm_answer, tier, adjudged>>
recVars == <<serving, crashes, rebuilds>>
extVars == <<bpc, message, delivered, api, sendFailed, listening, calls>>
chatVars == <<inputValue, selectedFile, isLoading, showResult, view, in_flight, posted,
              chatError, history, analysis_history, currentResult, closures, rejected,
              history_request>>
modalVars == <<shadowRoot, attached, card, threw, events>>
searchVars == <<flat_index, query_vector, top_k, neighbours>>
requestVars == <<fake_news_session_id, sessionId, generated, mounts, typed, chosen, requests>>
moreVars == <<modalVars, searchVars, requestVars>>
restVars == <<adjVars, recVars, extVars, chatVars, moreVars>>
otherVars == <<verdictVars, chunkVars, restVars>>
vars == <<pipeVars, otherVars>>

(***************************************************************************)
(* Bounds.                                                                 *)
(***************************************************************************)
NumRequests == 2      \* concurrent requests
ChunkSize == 2        \* chunk size used by the pipeline (400 in the source, scaled down)
MaxFrags == 3         \* fragments per answer text (SpecVerdict)
MaxTextLen == 5       \* characters per text (SpecChunk)
MaxChunkSize == 3     \* largest chunk size tried (SpecChunk)
MaxAnswerFrags == 3   \* fragments per LLM answer (SpecAdjudicate)
MaxIndexLen == 3      \* entries of the index searched (SpecSearch)
MaxCoordinate == 3    \* largest embedding value (SpecSearch)
MaxTopK == 4          \* largest top_k (SpecSearch)
MaxRequestFrags == 4  \* fragments of a text typed into ChatBox (SpecRequest)
MaxMounts == 3        \* mounts of ChatBox (SpecRequest)
MaxBackendRecords == 1 \* records of an earlier visit held by the backend (SpecChatBox)
MaxEvents == 4        \* messages and clicks the content script handles (SpecModal)
MaxInputLen == 2      \* characters typed into ChatBox's textarea (SpecChatBox)
MaxPosts == 3         \* requests ChatBox issues (SpecChatBox)
NumClicks == 2        \* context-menu clicks handled by the extension (SpecExtension)
MaxCrashes == 1       \* crashes of the backend (SpecRecovery)
MaxFlushLag == 2      \* index entries that may be missing from the file on disk at a crash

(***************************************************************************)
(* Text helpers.                                                           *)
(***************************************************************************)
Min(S) == CHOOSE x \in S : \A y \in S : x <= y
Max(S) == CHOOSE x \in S : \A y \in S : x >= y

RECURSIVE Concat(_)
Concat(ss) == IF ss = <<>> THEN <<>> ELSE Head(ss) \o Concat(Tail(ss))

RECURSIVE SeqsUpTo(_, _)
SeqsUpTo(S, n) ==
    IF n = 0 THEN {<<>>}
    ELSE LET shorter == SeqsUpTo(S, n - 1)
         IN  shorter \cup {Append(s, x) : s \in shorter, x \in S}

\* String.prototype.toUpperCase on the letters the model uses.
UpperOf ==
    [c \in {"a", "d", "e", "f", "i", "k", "r", "t", "u", "c", "v", ":", " ", "x"} |->
        CASE c = "a" -> "A" [] c = "d" -> "D" [] c = "e" -> "E" [] c = "f" -> "F"
          [] c = "i" -> "I" [] c = "k" -> "K" [] c = "r" -> "R" [] c = "t" -> "T"
          [] c = "u" -> "U" [] c = "c" -> "C" [] c = "v" -> "V"
          [] OTHER -> c]
toUpperCase(s) == [i \in 1..Len(s) |-> IF s[i] \in DOMAIN UpperOf THEN UpperOf[s[i]] ELSE s[i]]

\* s starts with pat at index i (1-based), compared character by character.
StartsAt(s, pat, i) ==
    /\ i >= 1
    /\ i + Len(pat) - 1 <= Len(s)
    /\ \A j \in 1..Len(pat) : s[i + j - 1] = pat[j]

\* String.prototype.indexOf as a left-to-right scan; 0 when pat does not occur.
RECURSIVE indexOfFrom(_, _, _)
indexOfFrom(s, pat, i) ==
    IF i + Len(pat) - 1 > Len(s) THEN 0
    ELSE IF StartsAt(s, pat, i) THEN i
    ELSE indexOfFrom(s, pat, i + 1)

\* String.prototype.includes: case-sensitive substring test.
includes(s, pat) == indexOfFrom(s, pat, 1) # 0

(***************************************************************************)
(* Verdict tokens.                                                         *)
(***************************************************************************)
FAKE == <<"F", "A", "K", "E">>
CREDIBLE == <<"C", "R", "E", "D", "I", "B", "L", "E">>
TRUE_ == <<"T", "R", "U", "E">>
MISLEADING == <<"M", "I", "S", "L", "E", "A", "D", "I", "N", "G">>
VERDICT_COLON == <<"V", "E", "R", "D", "I", "C", "T", ":">>
Whitespace == {" "}

\* extension content script: extractVerdict(text)
extractVerdict_noPriority(t) ==
    IF includes(t, CREDIBLE) \/ includes(t, TRUE_) THEN "CREDIBLE"
    ELSE IF includes(t, FAKE) THEN "FAKE"
    ELSE IF includes(t, MISLEADING) THEN "MISLEADING"
    ELSE "UNCERTAIN"

extractVerdict(t) ==
    IF includes(t, FAKE) THEN "FAKE"
    ELSE IF includes(t, CREDIBLE) \/ includes(t, TRUE_) THEN "CREDIBLE"
    ELSE IF includes(t, MISLEADING) THEN "MISLEADING"
    ELSE "UNCERTAIN"

\* ChatBox: answer.match(/VERDICT:\s*(FAKE|MISLEADING|CREDIBLE)/i).
\* SkipSpaces is the greedy \s*; the alternatives start with a letter, so no
\* shorter run of whitespace can match where the longest one does not.
RECURSIVE SkipSpaces(_, _)
SkipSpaces(s, i) ==
    IF i <= Len(s) /\ s[i] \in Whitespace THEN SkipSpaces(s, i + 1) ELSE i

VerdictGroupAt(s, i) ==
    LET u == toUpperCase(s)
        j == SkipSpaces(s, i + Len(VERDICT_COLON))
    IN  IF ~StartsAt(u, VERDICT_COLON, i) THEN <<>>
        ELSE IF StartsAt(u, FAKE, j) THEN SubSeq(s, j, j + Len(FAKE) - 1)
        ELSE IF StartsAt(u, MISLEADING, j) THEN SubSeq(s, j, j + Len(MISLEADING) - 1)
        ELSE IF StartsAt(u, CREDIBLE, j) THEN SubSeq(s, j, j + Len(CREDIBLE) - 1)
        ELSE <<>>

\* The leftmost match's capture group, <<>> when the regex does not match.
VerdictMatch(s) ==
    LET at == {i \in 1..Len(s) : VerdictGroupAt(s, i) # <<>>}
    IN  IF at = {} THEN <<>> ELSE VerdictGroupAt(s, Min(at))

VerdictName(g) ==
    IF g = FAKE THEN "FAKE"
    ELSE IF g = MISLEADING THEN "MISLEADING"
    ELSE IF g = CREDIBLE THEN "CREDIBLE"
    ELSE "UNKNOWN"

chatExtractVerdict(ans) ==
    LET m == VerdictMatch(ans)
    IN  IF m # <<>> THEN VerdictName(toUpperCase(m)) ELSE "UNKNOWN"

(***************************************************************************)
(* Chunker: chunk_text(content, chunk_size).  Splits after the last        *)
(* sentence boundary inside the window when there is one, and truncates    *)
(* hard at chunk_size otherwise.                                           *)
(***************************************************************************)
Boundary == {"."}

SplitPoint_overrun(t, size) ==
    LET B == {j \in 1..size : t[j] \in Boundary}
    IN  IF B = {} THEN size + 1 ELSE Max(B)

SplitPoint(t, size) ==
    LET B == {j \in 1..size : t[j] \in Boundary}
    IN  IF B = {} THEN size ELSE Max(B)

RECURSIVE chunk_text(_, _)
chunk_text(t, size) ==
    IF Len(t) = 0 THEN <<>>
    ELSE IF Len(t) <= size THEN <<t>>
    ELSE LET cut == SplitPoint(t, size)
         IN  <<SubSeq(t, 1, cut)>> \o chunk_text(SubSeq(t, cut + 1, Len(t)), size)

(***************************************************************************)
(* Extension data.                                                         *)
(***************************************************************************)
Clicks == 1..NumClicks

\* info.menuItemId and info.selectionText of a click.
MenuItems == {"verify-nocap", "other"}
SelectionTexts == {"", "t"}

(***************************************************************************)
(* ChatBox data.                                                           *)
(***************************************************************************)
\* Values of the textarea.
InputValues == SeqsUpTo({" ", "a"}, MaxInputLen)

\* Kinds of file the two file inputs accept.
Files == {"image", "pdf"}

HistoryLimit == 20        \* addToHistory: slice(0, 20)

\* useState(null) of currentResult: no result; results have positive ids.
null == [id |-> 0]
FAILED_TO_ANALYZE == "Failed to analyze. Please try again."

\* err.response?.data of a failed axios.post: the error and detail fields, ""
\* standing for a missing one (no response at all has both missing).
ErrorBodies == [error : {"", "e"}, detail : {"", "d"}]

\* err.response?.data?.error || err.response?.data?.detail || 'Failed to ...'
ErrorMessage(body) ==
    IF body.error # "" THEN body.error
    ELSE IF body.detail # "" THEN body.detail
    ELSE FAILED_TO_ANALYZE

\* A sequence without its i-th element.
Without(seq, i) == SubSeq(seq, 1, i - 1) \o SubSeq(seq, i + 1, Len(seq))

\* String.prototype.trim: leading and trailing whitespace removed.
RECURSIVE trim(_)
trim(str) ==
    IF str = <<>> THEN <<>>
    ELSE IF Head(str) = " " THEN trim(Tail(str))
    ELSE IF str[Len(str)] = " " THEN trim(SubSeq(str, 1, Len(str) - 1))
    ELSE str

\* Texts typed into the textarea of SpecRequest: up to MaxRequestFrags of
\* these fragments, concatenated.
HTTP == <<"h", "t", "t", "p", ":", "/", "/">>
HTTPS == <<"h", "t", "t", "p", "s", ":", "/", "/">>
RequestFragments == {HTTP, HTTPS, <<"u">>, <<"a">>, <<" ">>}
RequestTexts == {Concat(fs) : fs \in SeqsUpTo(RequestFragments, MaxRequestFrags)}

ANALYZE_THIS_ARTICLE ==
    <<"A", "n", "a", "l", "y", "z", "e", " ", "t", "h", "i", "s", " ",
      "a", "r", "t", "i", "c", "l", "e">>

\* uuidv4(): the n-th call returns the n-th of these.
UUIDs == <<"uuid-1", "uuid-2", "uuid-3">>

\* Length of the scheme matched by https?:\/\/ at index i of s, 0 for none.
SchemeAt(s, i) ==
    IF StartsAt(s, HTTPS, i) THEN Len(HTTPS)
    ELSE IF StartsAt(s, HTTP, i) THEN Len(HTTP)
    ELSE 0

\* https?:\/\/[^\s]+ matches at index i: the scheme and one more character
\* that is not whitespace.
UrlAt(s, i) ==
    /\ SchemeAt(s, i) > 0
    /\ i + SchemeAt(s, i) <= Len(s)
    /\ s[i + SchemeAt(s, i)] # " "

\* Index of the leftmost match of the regular expression from i on, 0 for none.
RECURSIVE UrlIndexFrom(_, _)
UrlIndexFrom(s, i) ==
    IF i > Len(s) THEN 0
    ELSE IF UrlAt(s, i) THEN i
    ELSE UrlIndexFrom(s, i + 1)

\* Index of the last character of the run [^\s]+ that holds index i.
RECURSIVE RunEnd(_, _)
RunEnd(s, i) == IF i < Len(s) /\ s[i + 1] # " " THEN RunEnd(s, i + 1) ELSE i

\* hasURL(text): urlRegex.test(text).
hasURL(s) == UrlIndexFrom(s, 1) # 0

\* userInput.match(/(https?:\/\/[^\s]+)/)[0], the empty string without a match.
urlMatch(s) ==
    LET i == UrlIndexFrom(s, 1)
    IN  IF i = 0 THEN <<>> ELSE SubSeq(s, i, RunEnd(s, i))

\* String.prototype.replace(pattern, replacement) with a string pattern: the
\* first occurrence only.
replace(s, pat, by) ==
    LET i == indexOfFrom(s, pat, 1)
    IN  IF i = 0 THEN s
        ELSE SubSeq(s, 1, i - 1) \o by \o SubSeq(s, i + Len(pat), Len(s))

\* The axios.post of handleAnalyze for the state it reads: endpoint and body.
AnalyzeRequest_wholeText(iv, sf, sid) ==
    LET userInput == trim(iv)
    IN  IF sf # "none"
        THEN [endpoint |-> IF sf = "pdf" THEN "/analyze_pdf" ELSE "/analyze_image",
              body |-> [file |-> sf, session_id |-> sid]]
        ELSE IF hasURL(userInput)
        THEN [endpoint |-> "/ask_web",
              body |-> [url |-> urlMatch(userInput), question |-> userInput,
                        session_id |-> sid]]
        ELSE [endpoint |-> "/ask", body |-> [question |-> userInput, session_id |-> sid]]

AnalyzeRequest(iv, sf, sid) ==
    LET userInput == trim(iv)
        url == urlMatch(userInput)
        rest == trim(replace(userInput, url, <<>>))
    IN  IF sf # "none"
        THEN [endpoint |-> IF sf = "pdf" THEN "/analyze_pdf" ELSE "/analyze_image",
              body |-> [file |-> sf, session_id |-> sid]]
        ELSE IF hasURL(userInput)
        THEN [endpoint |-> "/ask_web",
              body |-> [url |-> url,
                        question |-> IF rest = <<>> THEN ANALYZE_THIS_ARTICLE ELSE rest,
                        session_id |-> sid]]
        ELSE [endpoint |-> "/ask", body |-> [question |-> userInput, session_id |-> sid]]

\* The child the render gives to AnimatePresence.
DesiredKey(il, sr) ==
    IF ~sr /\ ~il THEN "input" ELSE IF il THEN "loading" ELSE "result"

(***************************************************************************)
(* Pipeline data.                                                          *)
(***************************************************************************)
Requests == 1..NumRequests

Threshold == 100          \* RAG score threshold
CacheConfidence == 95     \* confidence of a cached answer
TopK == 5                 \* chunks asked of FAISS
MaxSearchResults == 5     \* results asked of DuckDuckGo
InputLimit == 2000        \* sanitize_input: limit in characters
RagConfidence == 70       \* fallback confidence of a RAG answer
WebConfidence == 60       \* fallback confidence of a web-verified answer

\* Claims as typed by the user, before sanitization.
RawClaims == {<<"p">>, <<"q">>, <<"<", "b", ">">>}

\* The web as seen by the search and the scraper: URL -> article text.
URLs == {"u1", "u2"}
PageOf == [u \in URLs |-> IF u = "u1" THEN <<"m">> ELSE <<"n", ".", "m">>]

\* Answers the LLM may generate: a verdict with a stated confidence, and a
\* text with neither.
FAKE_90 == VERDICT_COLON \o <<" ">> \o FAKE \o <<" ", "9", "0">>
Answers == {FAKE_90, <<"x">>}

\* The answer given to the caller when the LLM call fails.
DEGRADED == <<"verification is unavailable, try again later">>

\* Failures of the LLM call.
LlmErrors == {"RateLimited", "ProviderError"}

NO_EVIDENCE == <<[content |-> <<"no evidence found">>, source_url |-> "none"]>>

\* Embedding generator: deterministic, defined on the empty text.  One
\* dimension stands for the 384 of the source.
Code(c) ==
    CASE c = "p" -> 20 [] c = "q" -> 40 [] c = "m" -> 10 [] c = "n" -> 11
      [] OTHER -> 0

RECURSIVE generate_embedding(_)
generate_embedding(t) ==
    IF t = <<>> THEN 0 ELSE Code(Head(t)) + generate_embedding(Tail(t))

\* FAISS IndexFlatL2 reports squared L2 distances.
L2(a, b) == (a - b) * (a - b)

\* content_hash of a chunk.
RECURSIVE content_hash(_)
content_hash(t) ==
    IF t = <<>> THEN 7 ELSE (31 * content_hash(Tail(t)) + Code(Head(t)) + Len(t)) % 997

\* sanitize_input: remove HTML tags, limit the length.
RECURSIVE RemoveTags(_, _)
RemoveTags(t, inTag) ==
    IF t = <<>> THEN <<>>
    ELSE IF Head(t) = "<" THEN RemoveTags(Tail(t), TRUE)
    ELSE IF Head(t) = ">" /\ inTag THEN RemoveTags(Tail(t), FALSE)
    ELSE IF inTag THEN RemoveTags(Tail(t), TRUE)
    ELSE <<Head(t)>> \o RemoveTags(Tail(t), FALSE)

sanitize_input(raw) ==
    LET clean == RemoveTags(raw, FALSE)
    IN  SubSeq(clean, 1, Min({Len(clean), InputLimit}))

(***************************************************************************)
(* Vector index search and RAG retrieval.                                  *)
(***************************************************************************)
\* Positions are 0-based as in FAISS; faiss[p + 1] is the entry at position p.
Closer_byPosition(index, qv, a, b) == a <= b

Closer(index, qv, a, b) ==
    LET da == L2(index[a + 1].embedding, qv)
        db == L2(index[b + 1].embedding, qv)
    IN  da < db \/ (da = db /\ a <= b)

RECURSIVE Nearest(_, _, _, _)
Nearest(index, qv, k, left) ==
    IF k = 0 \/ left = {} THEN <<>>
    ELSE LET best == CHOOSE a \in left : \A b \in left : Closer(index, qv, a, b)
         IN  <<[pos |-> best, dist |-> L2(index[best + 1].embedding, qv)]>>
                 \o Nearest(index, qv, k - 1, left \ {best})

\* index.search(query_vector, top_k): nearest first, empty on an empty index.
Search(index, qv, k) == Nearest(index, qv, k, 0..(Len(index) - 1))

\* The metadata records stored for a FAISS position.
MetaAt(meta, p) == {i \in 1..Len(meta) : meta[i].faiss_index = p}

\* retrieve(question, top_k): embed, search, attach the chunk stored for each
\* position; a position without metadata is dropped.
RECURSIVE Attach(_, _)
Attach(hits, meta) ==
    IF hits = <<>> THEN <<>>
    ELSE LET h == Head(hits)
             at == MetaAt(meta, h.pos)
         IN  (IF at = {} THEN <<>>
              ELSE <<[pos |-> h.pos, dist |-> h.dist,
                      content |-> meta[Min(at)].content,
                      source_url |-> meta[Min(at)].source_url]>>)
                 \o Attach(Tail(hits), meta)

retrieve(q, k) == Attach(Search(faiss, generate_embedding(q), k), web_embeddings)

\* build_context_from_chunks: most relevant first, one chunk per source.
RECURSIVE build_context_from_chunks(_, _)
build_context_from_chunks(found, seen) ==
    IF found = <<>> THEN <<>>
    ELSE LET c == Head(found)
         IN  IF c.source_url \in seen THEN build_context_from_chunks(Tail(found), seen)
             ELSE <<[content |-> c.content, source_url |-> c.source_url]>>
                      \o build_context_from_chunks(Tail(found), seen \cup {c.source_url})

\* search_news_article(question): saved answers whose question matches.
search_news_article_dbOnly(q) ==
    {i \in 1..Len(news_articles) :
        news_articles[i].question = q /\ news_articles[i].source_type = "db"}

search_news_article(q) == {i \in 1..Len(news_articles) : news_articles[i].question = q}

\* Score threshold check on the best (first) result.
BestDistance(found) == IF found = <<>> THEN -1 ELSE found[1].dist
GoodMatch_inclusive(found) == found # <<>> /\ found[1].dist <= Threshold
GoodMatch(found) == found # <<>> /\ found[1].dist < Threshold

\* Sequences of distinct URLs: what a search may return.
RECURSIVE DistinctSeqs(_, _)
DistinctSeqs(S, n) ==
    IF n = 0 \/ S = {} THEN {<<>>}
    ELSE {<<>>} \cup UNION {{<<x>> \o rest : rest \in DistinctSeqs(S \ {x}, n - 1)} : x \in S}

(***************************************************************************)
(* Pipeline: initial state.                                                *)
(***************************************************************************)
InitPipeline ==
    /\ stage = [r \in Requests |-> "NEW"]
    /\ question = [r \in Requests |-> <<>>]
    /\ wpc = [r \in Requests |-> "idle"]
    /\ results = [r \in Requests |-> <<>>]
    /\ pending = [r \in Requests |-> <<>>]
    /\ position = [r \in Requests |-> -1]
    /\ retrieved = [r \in Requests |-> <<>>]
    /\ gateDist = [r \in Requests |-> -1]
    /\ context = [r \in Requests |-> <<>>]
    /\ source_type = [r \in Requests |-> "none"]
    /\ response = [r \in Requests |-> <<>>]
    /\ error = [r \in Requests |-> "none"]
    /\ ragCalls = [r \in Requests |-> 0]
    /\ webCalls = [r \in Requests |-> 0]
    /\ usable = [r \in Requests |-> 0]
    /\ answer = [r \in Requests |-> <<>>]
    /\ cacheCalls = [r \in Requests |-> 0]
    /\ llmCalls = [r \in Requests |-> 0]
    /\ absorbed = [r \in Requests |-> {}]
    /\ news_articles = <<>>
    /\ fake_news_logs = <<>>
    /\ web_embeddings = <<>>
    /\ faiss = <<>>
    /\ writer = 0

InitVerdictIdle ==
    /\ text = <<>>
    /\ variant = <<>>
    /\ extVerdict = [text |-> "none", variant |-> "none"]
    /\ chatVerdict = [text |-> "none", variant |-> "none"]

InitChunkIdle ==
    /\ content = <<>>
    /\ chunk_size = 1
    /\ chunks = [done |-> FALSE, out |-> <<>>]

InitAdjudicateIdle ==
    /\ llm_answer = <<>>
    /\ tier = "none"
    /\ adjudged = [done |-> FALSE]

InitRecovery ==
    /\ serving = TRUE
    /\ crashes = 0
    /\ rebuilds = 0

InitExtension ==
    /\ bpc = [c \in Clicks |-> "idle"]
    /\ message = [c \in Clicks |-> "none"]
    /\ delivered = [c \in Clicks |-> <<>>]
    /\ api = [c \in Clicks |-> "none"]
    /\ sendFailed = [c \in Clicks |-> {}]
    /\ listening = FALSE
    /\ calls = [c \in Clicks |-> <<>>]

\* The state a view is rendered from.
Render(iv, sf, il, sr, h) ==
    [key |-> DesiredKey(il, sr), inputValue |-> iv, selectedFile |-> sf, isLoading |-> il,
     history |-> h]

InitChatBox ==
    /\ inputValue = <<>>
    /\ selectedFile = "none"
    /\ isLoading = FALSE
    /\ showResult = FALSE
    /\ view = Render(<<>>, "none", FALSE, FALSE, <<>>)
    /\ in_flight = 0
    /\ posted = 0
    /\ chatError = ""
    /\ history = <<>>
    /\ analysis_history = <<>>
    /\ currentResult = null
    /\ closures = <<>>
    /\ rejected = 0
    /\ history_request = "done"

\* content.js as loaded into a page: let shadowRoot = null, no modal yet.
InitModal ==
    /\ shadowRoot = "null"
    /\ attached = FALSE
    /\ card = "none"
    /\ threw = {}
    /\ events = <<>>

InitSearchIdle ==
    /\ flat_index = <<>>
    /\ query_vector = 0
    /\ top_k = 0
    /\ neighbours = [done |-> FALSE, out |-> <<>>]

\* A browser that never opened the page: nothing stored, nothing mounted.
InitRequest ==
    /\ fake_news_session_id = "null"
    /\ sessionId = ""
    /\ generated = 0
    /\ mounts = 0
    /\ typed = <<>>
    /\ chosen = "none"
    /\ requests = <<>>

InitMore == InitModal /\ InitSearchIdle /\ InitRequest

InitRestIdle ==
    InitAdjudicateIdle /\ InitRecovery /\ InitExtension /\ InitChatBox /\ InitMore

(***************************************************************************)
(* Pipeline: actions.                                                      *)
(***************************************************************************)
CacheTag == "db"
RagTag_asRetrieved == "web"
RagTag == "rag"
WebTag == "web"

\* Verdict parsed by the backend from the generated answer: case-insensitive,
\* FAKE before CREDIBLE/TRUE before MISLEADING, UNCERTAIN when none occurs.
extract_verdict(t) == extractVerdict(toUpperCase(t))

\* The confidence number stated in the answer: the first run of digits read
\* as a decimal number, -1 when the answer holds no digit.
Digits == <<"0", "1", "2", "3", "4", "5", "6", "7", "8", "9">>
IsDigit(c) == \E d \in 1..Len(Digits) : Digits[d] = c
DigitValue(c) == (CHOOSE d \in 1..Len(Digits) : Digits[d] = c) - 1

RECURSIVE ReadNumber(_, _, _)
ReadNumber(t, i, acc) ==
    IF i <= Len(t) /\ IsDigit(t[i]) THEN ReadNumber(t, i + 1, 10 * acc + DigitValue(t[i]))
    ELSE acc

stated_confidence(t) ==
    LET at == {i \in 1..Len(t) : IsDigit(t[i])}
    IN  IF at = {} THEN -1 ELSE ReadNumber(t, Min(at), 0)

TierConfidence(tag) == IF tag = RagTag THEN RagConfidence ELSE WebConfidence

\* Calculate Confidence 0-100: the stated number, limited to 100, or the
\* fallback of the tier when the answer states none.
calculate_confidence_unbounded(tag, t) ==
    IF stated_confidence(t) < 0 THEN TierConfidence(tag) ELSE stated_confidence(t)

calculate_confidence_asTier(tag, t) == TierConfidence(tag)

calculate_confidence(tag, t) ==
    IF stated_confidence(t) < 0 THEN TierConfidence(tag)
    ELSE Min({stated_confidence(t), 100})

Sources(ctx) == [i \in 1..Len(ctx) |-> ctx[i].source_url]

\* The record written by save_chat_message().
ChatMessage(r, ans, tag, conf, srcs) ==
    [request |-> r, question |-> question[r], answer |-> ans, source_type |-> tag,
     verdict |-> extract_verdict(ans), confidence |-> conf, sources |-> srcs]

\* The response returned to the caller.
Response(ans, tag, conf, srcs) ==
    [answer |-> ans, verdict |-> extract_verdict(ans), confidence |-> conf,
     source_type |-> tag, sources |-> srcs]

\* save_chat_message(): one record appended to the collection.
save_chat_message_upsert(rec) ==
    IF news_articles = <<>> THEN <<rec>>
    ELSE [news_articles EXCEPT ![Len(news_articles)] = rec]

save_chat_message(rec) == Append(news_articles, rec)

\* log_fake_news_detection(): the audit entry of a web-tier result.
log_fake_news_detection_always(tag, entry) == Append(fake_news_logs, entry)

log_fake_news_detection(tag, entry) ==
    IF tag = WebTag THEN Append(fake_news_logs, entry) ELSE fake_news_logs

\* POST /ask: sanitize the claim; an empty claim is rejected before the pipeline.
Submit_noCheck(r) ==
    /\ stage[r] = "NEW"
    /\ \E raw \in RawClaims :
          /\ stage' = [stage EXCEPT ![r] = "CACHE_CHECK"]
          /\ question' = [question EXCEPT ![r] = sanitize_input(raw)]
    /\ UNCHANGED <<wpc, results, pending, position, retrieved, gateDist, context,
                   source_type, response, error, ragCalls, webCalls, usable, answer,
                   news_articles, fake_news_logs, web_embeddings, faiss, writer>>
    /\ UNCHANGED <<cacheCalls, llmCalls, absorbed>>
    /\ UNCHANGED otherVars

Submit(r) ==
    /\ serving
    /\ stage[r] = "NEW"
    /\ \E raw \in RawClaims :
          LET q == sanitize_input(raw)
          IN  IF q = <<>>
              THEN /\ stage' = [stage EXCEPT ![r] = "FAILED"]
                   /\ error' = [error EXCEPT ![r] = "InvalidInput"]
                   /\ UNCHANGED question
              ELSE /\ stage' = [stage EXCEPT ![r] = "CACHE_CHECK"]
                   /\ question' = [question EXCEPT ![r] = q]
                   /\ UNCHANGED error
    /\ UNCHANGED <<wpc, results, pending, position, retrieved, gateDist, context,
                   source_type, response, ragCalls, webCalls, usable, answer,
                   news_articles, fake_news_logs, web_embeddings, faiss, writer>>
    /\ UNCHANGED <<cacheCalls, llmCalls, absorbed>>
    /\ UNCHANGED otherVars

\* STEP 1: check the database cache.  A hit answers the request at once.
CacheCheck_fallthrough(r) ==
    /\ stage[r] = "CACHE_CHECK"
    /\ stage' = [stage EXCEPT ![r] = "RAG_LOOKUP"]
    /\ UNCHANGED <<question, wpc, results, pending, position, retrieved, gateDist,
                   context, source_type, response, error, ragCalls, webCalls, usable,
                   answer, news_articles, fake_news_logs, web_embeddings, faiss, writer>>
    /\ UNCHANGED <<cacheCalls, llmCalls, absorbed>>
    /\ UNCHANGED otherVars

CacheCheck(r) ==
    /\ stage[r] = "CACHE_CHECK"
    /\ LET hits == search_news_article(question[r])
       IN  IF hits # {}
           THEN LET cached == news_articles[Min(hits)]
                IN  /\ answer' = [answer EXCEPT ![r] = cached.answer]
                    /\ source_type' = [source_type EXCEPT ![r] = CacheTag]
                    /\ news_articles' = save_chat_message(
                           ChatMessage(r, cached.answer, CacheTag, CacheConfidence, <<>>))
                    /\ response' = [response EXCEPT ![r] =
                           <<Response(cached.answer, CacheTag, CacheConfidence, <<>>)>>]
                    /\ stage' = [stage EXCEPT ![r] = "PERSISTED"]
           ELSE /\ stage' = [stage EXCEPT ![r] = "RAG_LOOKUP"]
                /\ UNCHANGED <<answer, source_type, news_articles, response>>
    /\ cacheCalls' = [cacheCalls EXCEPT ![r] = @ + 1]
    /\ UNCHANGED <<question, wpc, results, pending, position, retrieved, gateDist,
                   context, error, ragCalls, webCalls, usable, llmCalls, absorbed,
                   fake_news_logs, web_embeddings, faiss, writer>>
    /\ UNCHANGED otherVars

\* STEP 2: RAG vector search and the score threshold check.
RagLookup_alwaysEscalate(r) ==
    /\ stage[r] = "RAG_LOOKUP"
    /\ LET found == retrieve(question[r], TopK)
       IN  /\ ragCalls' = [ragCalls EXCEPT ![r] = @ + 1]
           /\ retrieved' = [retrieved EXCEPT ![r] = found]
           /\ gateDist' = [gateDist EXCEPT ![r] = BestDistance(found)]
    /\ stage' = [stage EXCEPT ![r] = "WEB_ESCALATION"]
    /\ wpc' = [wpc EXCEPT ![r] = "search"]
    /\ UNCHANGED <<question, results, pending, position, response, error, webCalls,
                   usable, answer, news_articles, fake_news_logs, web_embeddings,
                   faiss, writer, context, source_type>>
    /\ UNCHANGED <<cacheCalls, llmCalls, absorbed>>
    /\ UNCHANGED otherVars

RagLookup(r) ==
    /\ stage[r] = "RAG_LOOKUP"
    /\ LET found == retrieve(question[r], TopK)
       IN  /\ ragCalls' = [ragCalls EXCEPT ![r] = @ + 1]
           /\ retrieved' = [retrieved EXCEPT ![r] = found]
           /\ gateDist' = [gateDist EXCEPT ![r] = BestDistance(found)]
           /\ IF GoodMatch(found)
              THEN /\ context' = [context EXCEPT ![r] = build_context_from_chunks(found, {})]
                   /\ source_type' = [source_type EXCEPT ![r] = RagTag]
                   /\ stage' = [stage EXCEPT ![r] = "ADJUDICATION"]
                   /\ UNCHANGED wpc
              ELSE /\ stage' = [stage EXCEPT ![r] = "WEB_ESCALATION"]
                   /\ wpc' = [wpc EXCEPT ![r] = "search"]
                   /\ UNCHANGED <<context, source_type>>
    /\ UNCHANGED <<question, results, pending, position, response, error, webCalls,
                   usable, answer, news_articles, fake_news_logs, web_embeddings,
                   faiss, writer>>
    /\ UNCHANGED <<cacheCalls, llmCalls, absorbed>>
    /\ UNCHANGED otherVars

\* No search result, or the search itself failed: the request goes on to the
\* LLM with a "no evidence found" context.
ProceedWithoutEvidence_fail(r) ==
    /\ stage' = [stage EXCEPT ![r] = "FAILED"]
    /\ error' = [error EXCEPT ![r] = "ProviderError"]
    /\ wpc' = [wpc EXCEPT ![r] = "idle"]
    /\ UNCHANGED context

ProceedWithoutEvidence(r) ==
    /\ context' = [context EXCEPT ![r] = NO_EVIDENCE]
    /\ stage' = [stage EXCEPT ![r] = "ADJUDICATION"]
    /\ wpc' = [wpc EXCEPT ![r] = "idle"]
    /\ UNCHANGED error

\* STEP 3: live web search.  duckduckgo_search returns the URLs to scrape.
duckduckgo_search(r) ==
    /\ stage[r] = "WEB_ESCALATION"
    /\ wpc[r] = "search"
    /\ webCalls' = [webCalls EXCEPT ![r] = @ + 1]
    /\ source_type' = [source_type EXCEPT ![r] = WebTag]
    /\ \E found \in DistinctSeqs(URLs, MaxSearchResults) :
          IF found = <<>>
          THEN /\ ProceedWithoutEvidence(r)
               /\ UNCHANGED results
          ELSE /\ results' = [results EXCEPT ![r] = found]
               /\ wpc' = [wpc EXCEPT ![r] = "scrape"]
               /\ UNCHANGED <<context, stage, error>>
    /\ UNCHANGED <<question, pending, position, retrieved, gateDist, response,
                   ragCalls, usable, answer, news_articles, fake_news_logs,
                   web_embeddings, faiss, writer>>
    /\ UNCHANGED <<cacheCalls, llmCalls, absorbed>>
    /\ UNCHANGED otherVars

\* The search itself fails (provider error or timeout).
SearchFails(r) ==
    /\ stage[r] = "WEB_ESCALATION"
    /\ wpc[r] = "search"
    /\ webCalls' = [webCalls EXCEPT ![r] = @ + 1]
    /\ source_type' = [source_type EXCEPT ![r] = WebTag]
    /\ ProceedWithoutEvidence(r)
    /\ UNCHANGED <<question, results, pending, position, retrieved, gateDist, response,
                   ragCalls, usable, answer, news_articles, fake_news_logs,
                   web_embeddings, faiss, writer>>
    /\ UNCHANGED <<cacheCalls, llmCalls, absorbed>>
    /\ UNCHANGED otherVars

\* Where the web tier goes once the chunks of a document are done.
AfterDocument(left) == IF left # <<>> THEN "scrape" ELSE "retrieve"

\* scrape_url(url) for the next result; a failed fetch is skipped.
scrape_url_fatal(r) ==
    /\ stage[r] = "WEB_ESCALATION"
    /\ wpc[r] = "scrape"
    /\ results[r] # <<>>
    /\ LET u == Head(results[r])
           left == Tail(results[r])
       IN  /\ results' = [results EXCEPT ![r] = left]
           /\ \E fetched \in BOOLEAN :
                 IF fetched
                 THEN LET cs == chunk_text(PageOf[u], ChunkSize)
                      IN  /\ pending' = [pending EXCEPT ![r] =
                                 [i \in 1..Len(cs) |-> [chunk |-> cs[i], source_url |-> u]]]
                          /\ usable' = [usable EXCEPT ![r] = @ + 1]
                          /\ wpc' = [wpc EXCEPT ![r] =
                                 IF cs = <<>> THEN AfterDocument(left) ELSE "add"]
                          /\ UNCHANGED <<stage, error>>
                 ELSE /\ wpc' = [wpc EXCEPT ![r] = "idle"]
                      /\ stage' = [stage EXCEPT ![r] = "FAILED"]
                      /\ error' = [error EXCEPT ![r] = "ProviderError"]
                      /\ UNCHANGED <<pending, usable>>
    /\ UNCHANGED <<question, position, retrieved, gateDist, context, source_type,
                   response, ragCalls, webCalls, answer, news_articles,
                   fake_news_logs, web_embeddings, faiss, writer>>
    /\ UNCHANGED <<cacheCalls, llmCalls, absorbed>>
    /\ UNCHANGED otherVars

\* scrape_url(url) for the next result; a failed fetch is skipped.
scrape_url(r) ==
    /\ stage[r] = "WEB_ESCALATION"
    /\ wpc[r] = "scrape"
    /\ results[r] # <<>>
    /\ LET u == Head(results[r])
           left == Tail(results[r])
       IN  /\ results' = [results EXCEPT ![r] = left]
           /\ \E fetched \in BOOLEAN :
                 IF fetched
                 THEN LET cs == chunk_text(PageOf[u], ChunkSize)
                      IN  /\ pending' = [pending EXCEPT ![r] =
                                 [i \in 1..Len(cs) |-> [chunk |-> cs[i], source_url |-> u]]]
                          /\ usable' = [usable EXCEPT ![r] = @ + 1]
                          /\ wpc' = [wpc EXCEPT ![r] =
                                 IF cs = <<>> THEN AfterDocument(left) ELSE "add"]
                 ELSE /\ wpc' = [wpc EXCEPT ![r] = AfterDocument(left)]
                      /\ UNCHANGED <<pending, usable>>
    /\ UNCHANGED <<stage, question, position, retrieved, gateDist, context, source_type,
                   response, error, ragCalls, webCalls, answer, news_articles,
                   fake_news_logs, web_embeddings, faiss, writer>>
    /\ UNCHANGED <<cacheCalls, llmCalls, absorbed>>
    /\ UNCHANGED otherVars

\* The fetch of the next result has not returned within its time limit: it is
\* cut off and the result is skipped like a failed fetch.
FetchTimeout(r) ==
    /\ stage[r] = "WEB_ESCALATION"
    /\ wpc[r] = "scrape"
    /\ results[r] # <<>>
    /\ results' = [results EXCEPT ![r] = Tail(@)]
    /\ wpc' = [wpc EXCEPT ![r] = AfterDocument(Tail(results[r]))]
    /\ UNCHANGED <<stage, question, pending, usable, position, retrieved, gateDist,
                   context, source_type, response, error, ragCalls, webCalls, answer,
                   news_articles, fake_news_logs, web_embeddings, faiss, writer>>
    /\ absorbed' = [absorbed EXCEPT ![r] =
           @ \cup {[stage |-> stage[r], kind |-> "StageTimeout"]}]
    /\ UNCHANGED <<cacheCalls, llmCalls>>
    /\ UNCHANGED otherVars

\* The writer lock around the paired write.
AcquireWriter_noGuard(r) == writer' = r

AcquireWriter(r) == writer = 0 /\ writer' = r

ReleaseWriter(r) == writer = r /\ writer' = 0

\* add_web_content, first half of the paired write: append the chunk's
\* embedding to the FAISS index.
FaissAdd_inPlace(r) ==
    /\ stage[r] = "WEB_ESCALATION"
    /\ wpc[r] = "add"
    /\ AcquireWriter(r)
    /\ LET c == Head(pending[r])
           same == {i \in 1..Len(faiss) : faiss[i].chunk = c.chunk}
           entry == [embedding |-> generate_embedding(c.chunk), chunk |-> c.chunk]
       IN  IF same = {}
           THEN /\ position' = [position EXCEPT ![r] = Len(faiss)]
                /\ faiss' = Append(faiss, entry)
           ELSE /\ position' = [position EXCEPT ![r] = Min(same) - 1]
                /\ faiss' = [faiss EXCEPT ![Min(same)] = entry]
    /\ wpc' = [wpc EXCEPT ![r] = "save"]
    /\ UNCHANGED <<stage, question, results, pending, retrieved, gateDist, context,
                   source_type, response, error, ragCalls, webCalls, usable, answer,
                   news_articles, fake_news_logs, web_embeddings>>
    /\ UNCHANGED <<cacheCalls, llmCalls, absorbed>>
    /\ UNCHANGED otherVars

FaissAdd(r) ==
    /\ stage[r] = "WEB_ESCALATION"
    /\ wpc[r] = "add"
    /\ AcquireWriter(r)
    /\ LET c == Head(pending[r])
       IN  /\ position' = [position EXCEPT ![r] = Len(faiss)]
           /\ faiss' = Append(faiss, [embedding |-> generate_embedding(c.chunk),
                                      chunk |-> c.chunk])
    /\ wpc' = [wpc EXCEPT ![r] = "save"]
    /\ UNCHANGED <<stage, question, results, pending, retrieved, gateDist, context,
                   source_type, response, error, ragCalls, webCalls, usable, answer,
                   news_articles, fake_news_logs, web_embeddings>>
    /\ UNCHANGED <<cacheCalls, llmCalls, absorbed>>
    /\ UNCHANGED otherVars

\* The metadata record stored for the chunk at FAISS position p.
WebEmbedding_afterAdd(c, p) ==
    [content_hash |-> content_hash(c.chunk), content |-> c.chunk,
     source_url |-> c.source_url, faiss_index |-> Len(faiss)]

WebEmbedding(c, p) ==
    [content_hash |-> content_hash(c.chunk), content |-> c.chunk,
     source_url |-> c.source_url, faiss_index |-> p]

\* add_web_content, second half of the paired write: save_web_embedding().
save_web_embedding(r) ==
    /\ stage[r] = "WEB_ESCALATION"
    /\ wpc[r] = "save"
    /\ web_embeddings' = Append(web_embeddings, WebEmbedding(Head(pending[r]), position[r]))
    /\ ReleaseWriter(r)
    /\ pending' = [pending EXCEPT ![r] = Tail(@)]
    /\ wpc' = [wpc EXCEPT ![r] =
           IF Tail(pending[r]) # <<>> THEN "add" ELSE AfterDocument(results[r])]
    /\ UNCHANGED <<stage, question, results, position, retrieved, gateDist, context,
                   source_type, response, error, ragCalls, webCalls, usable, answer,
                   news_articles, fake_news_logs, faiss>>
    /\ UNCHANGED <<cacheCalls, llmCalls, absorbed>>
    /\ UNCHANGED otherVars

\* Re-retrieve against the enriched index and build the fresh context; no
\* usable document leaves the "no evidence found" context.
FreshRetrieve_backToRag(r) ==
    /\ stage[r] = "WEB_ESCALATION"
    /\ wpc[r] = "retrieve"
    /\ stage' = [stage EXCEPT ![r] = "RAG_LOOKUP"]
    /\ wpc' = [wpc EXCEPT ![r] = "idle"]
    /\ UNCHANGED <<question, results, pending, position, retrieved, gateDist, context,
                   source_type, response, error, ragCalls, webCalls, usable, answer,
                   news_articles, fake_news_logs, web_embeddings, faiss, writer>>
    /\ UNCHANGED <<cacheCalls, llmCalls, absorbed>>
    /\ UNCHANGED otherVars

FreshRetrieve(r) ==
    /\ stage[r] = "WEB_ESCALATION"
    /\ wpc[r] = "retrieve"
    /\ LET found == retrieve(question[r], TopK)
       IN  /\ ragCalls' = [ragCalls EXCEPT ![r] = @ + 1]
           /\ retrieved' = [retrieved EXCEPT ![r] = found]
           /\ context' = [context EXCEPT ![r] =
                  IF usable[r] = 0 \/ found = <<>> THEN NO_EVIDENCE
                  ELSE build_context_from_chunks(found, {})]
    /\ stage' = [stage EXCEPT ![r] = "ADJUDICATION"]
    /\ wpc' = [wpc EXCEPT ![r] = "idle"]
    /\ UNCHANGED <<question, results, pending, position, gateDist, source_type,
                   response, error, webCalls, usable, answer, news_articles,
                   fake_news_logs, web_embeddings, faiss, writer>>
    /\ UNCHANGED <<cacheCalls, llmCalls, absorbed>>
    /\ UNCHANGED otherVars

\* ADJUDICATION: the LLM generates the answer from the context.  The call is
\* in flight from the moment the request enters ADJUDICATION until one of
\* Generate, LlmFails and LlmTimeout ends it.
Generate(r) ==
    /\ stage[r] = "ADJUDICATION"
    /\ answer[r] = <<>>
    /\ \E a \in Answers : answer' = [answer EXCEPT ![r] = a]
    /\ llmCalls' = [llmCalls EXCEPT ![r] = @ + 1]
    /\ UNCHANGED <<stage, question, wpc, results, pending, position, retrieved,
                   gateDist, context, source_type, response, error, ragCalls,
                   webCalls, usable, cacheCalls, absorbed, news_articles,
                   fake_news_logs, web_embeddings, faiss, writer>>
    /\ UNCHANGED otherVars

\* A failed LLM call is absorbed: the request goes on with the degraded answer.
Degrade_propagate(r, kind) ==
    /\ stage' = [stage EXCEPT ![r] = "FAILED"]
    /\ error' = [error EXCEPT ![r] = kind]
    /\ absorbed' = [absorbed EXCEPT ![r] = @ \cup {[stage |-> stage[r], kind |-> kind]}]
    /\ UNCHANGED answer

Degrade(r, kind) ==
    /\ answer' = [answer EXCEPT ![r] = DEGRADED]
    /\ absorbed' = [absorbed EXCEPT ![r] = @ \cup {[stage |-> stage[r], kind |-> kind]}]
    /\ UNCHANGED <<stage, error>>

\* The LLM call fails with RateLimited or ProviderError.
LlmFails(r) ==
    /\ stage[r] = "ADJUDICATION"
    /\ answer[r] = <<>>
    /\ \E kind \in LlmErrors : Degrade(r, kind)
    /\ llmCalls' = [llmCalls EXCEPT ![r] = @ + 1]
    /\ UNCHANGED <<question, wpc, results, pending, position, retrieved,
                   gateDist, context, source_type, response, ragCalls,
                   webCalls, usable, cacheCalls, news_articles,
                   fake_news_logs, web_embeddings, faiss, writer>>
    /\ UNCHANGED otherVars

\* The LLM call has not returned within its time limit and is cut off.
LlmTimeout_hang(r) ==
    /\ stage[r] = "ADJUDICATION"
    /\ answer[r] = <<>>
    /\ UNCHANGED vars

LlmTimeout(r) ==
    /\ stage[r] = "ADJUDICATION"
    /\ answer[r] = <<>>
    /\ Degrade(r, "StageTimeout")
    /\ llmCalls' = [llmCalls EXCEPT ![r] = @ + 1]
    /\ UNCHANGED <<question, wpc, results, pending, position, retrieved,
                   gateDist, context, source_type, response, ragCalls,
                   webCalls, usable, cacheCalls, news_articles,
                   fake_news_logs, web_embeddings, faiss, writer>>
    /\ UNCHANGED otherVars

\* PERSISTED: save_chat_message(), log_fake_news_detection() for the web tier,
\* and the response to the caller.
Persist(r) ==
    /\ stage[r] = "ADJUDICATION"
    /\ answer[r] # <<>>
    /\ LET tag == source_type[r]
           conf == calculate_confidence(tag, answer[r])
           srcs == Sources(context[r])
       IN  /\ news_articles' = save_chat_message(ChatMessage(r, answer[r], tag, conf, srcs))
           /\ fake_news_logs' = log_fake_news_detection(tag,
                  [request |-> r, question |-> question[r],
                   verdict |-> extract_verdict(answer[r]),
                   confidence |-> conf, evidence |-> srcs])
           /\ response' = [response EXCEPT ![r] = <<Response(answer[r], tag, conf, srcs)>>]
    /\ stage' = [stage EXCEPT ![r] = "PERSISTED"]
    /\ UNCHANGED <<question, wpc, results, pending, position, retrieved, gateDist,
                   context, source_type, error, ragCalls, webCalls, usable, answer,
                   web_embeddings, faiss, writer>>
    /\ UNCHANGED <<cacheCalls, llmCalls, absorbed>>
    /\ UNCHANGED otherVars

\* MongoDB or the FAISS index is unreachable: fatal to this request only.
StorageUnavailable_crash(r) ==
    /\ stage[r] \in {"RAG_LOOKUP", "ADJUDICATION"}
    /\ stage' = [o \in Requests |->
           IF stage[o] \in {"NEW", "PERSISTED", "FAILED"} THEN stage[o] ELSE "FAILED"]
    /\ error' = [error EXCEPT ![r] = "StorageUnavailable"]
    /\ UNCHANGED <<question, wpc, results, pending, position, retrieved, gateDist,
                   context, source_type, response, ragCalls, webCalls, usable, answer,
                   news_articles, fake_news_logs, web_embeddings, faiss, writer>>
    /\ UNCHANGED <<cacheCalls, llmCalls, absorbed>>
    /\ UNCHANGED otherVars

StorageUnavailable(r) ==
    /\ stage[r] \in {"RAG_LOOKUP", "ADJUDICATION"}
    /\ stage' = [stage EXCEPT ![r] = "FAILED"]
    /\ error' = [error EXCEPT ![r] = "StorageUnavailable"]
    /\ UNCHANGED <<question, wpc, results, pending, position, retrieved, gateDist,
                   context, source_type, response, ragCalls, webCalls, usable, answer,
                   news_articles, fake_news_logs, web_embeddings, faiss, writer>>
    /\ UNCHANGED <<cacheCalls, llmCalls, absorbed>>
    /\ UNCHANGED otherVars

Next ==
    \E r \in Requests :
        \/ Submit(r)
        \/ CacheCheck(r)
        \/ RagLookup(r)
        \/ duckduckgo_search(r)
        \/ SearchFails(r)
        \/ scrape_url(r)
        \/ FaissAdd(r)
        \/ save_web_embedding(r)
        \/ FreshRetrieve(r)
        \/ Generate(r)
        \/ Persist(r)
        \/ StorageUnavailable(r)

Init == InitPipeline /\ InitVerdictIdle /\ InitChunkIdle /\ InitRestIdle

Spec == Init /\ [][Next]_vars

(***************************************************************************)
(* SpecFaults: the pipeline of one request with the failures and the time   *)
(* limits of its external calls.                                           *)
(***************************************************************************)
Single == {Min(Requests)}

NextFaults ==
    \E r \in Single :
        \/ Submit(r)
        \/ CacheCheck(r)
        \/ RagLookup(r)
        \/ duckduckgo_search(r)
        \/ SearchFails(r)
        \/ scrape_url(r)
        \/ FetchTimeout(r)
        \/ FaissAdd(r)
        \/ save_web_embedding(r)
        \/ FreshRetrieve(r)
        \/ Generate(r)
        \/ LlmFails(r)
        \/ LlmTimeout(r)
        \/ Persist(r)
        \/ StorageUnavailable(r)

SpecFaults == Init /\ [][NextFaults]_vars

\* The steps the backend takes by itself once a request is in: its own code
\* and the time limits of its calls.  The returns of the LLM, of the search
\* and of the fetches are left to the environment.
Progress(r) ==
    \/ CacheCheck(r)
    \/ RagLookup(r)
    \/ SearchFails(r)
    \/ FetchTimeout(r)
    \/ FaissAdd(r)
    \/ save_web_embedding(r)
    \/ FreshRetrieve(r)
    \/ LlmTimeout(r)
    \/ Persist(r)

FairSpec == SpecFaults /\ \A r \in Single : WF_vars(Progress(r))

(***************************************************************************)
(* SpecVerdict: the two client-side extractors applied to answer texts.    *)
(***************************************************************************)
Fragments ==
    {FAKE, <<"f", "a", "k", "e">>, CREDIBLE, TRUE_, <<"t", "r", "u", "e">>, MISLEADING,
     VERDICT_COLON, <<"v", "e", "r", "d", "i", "c", "t", ":">>, <<" ">>, <<"x">>}

AnswerTexts == {Concat(fs) : fs \in SeqsUpTo(Fragments, MaxFrags)}

VerdictTokens == {FAKE, CREDIBLE, TRUE_, MISLEADING}

\* t with the n characters from index i on written in upper case.
UpperAt(t, i, n) ==
    [j \in 1..Len(t) |-> IF j >= i /\ j < i + n THEN toUpperCase(<<t[j]>>)[1] ELSE t[j]]

\* The texts obtained from t by writing one occurrence of a verdict token (in
\* any case) in upper case; t itself when it holds no token.
Variants(t) ==
    LET occ == {<<tok, i>> \in VerdictTokens \X (1..Len(t)) :
                    StartsAt(toUpperCase(t), tok, i)}
    IN  IF occ = {} THEN {t} ELSE {UpperAt(t, o[2], Len(o[1])) : o \in occ}

InitVerdict ==
    /\ text \in AnswerTexts
    /\ variant \in Variants(text)
    /\ extVerdict = [text |-> "none", variant |-> "none"]
    /\ chatVerdict = [text |-> "none", variant |-> "none"]

\* content script, updateModal: const verdict = extractVerdict(data.answer)
ExtensionExtract ==
    /\ extVerdict.text = "none"
    /\ extVerdict' = [text |-> extractVerdict(text), variant |-> extractVerdict(variant)]
    /\ UNCHANGED <<text, variant, chatVerdict, pipeVars, chunkVars, restVars>>

\* ChatBox, handleAnalyze: verdict: extractVerdict(response.data.answer)
ChatBoxExtract ==
    /\ chatVerdict.text = "none"
    /\ chatVerdict' = [text |-> chatExtractVerdict(text),
                       variant |-> chatExtractVerdict(variant)]
    /\ UNCHANGED <<text, variant, extVerdict, pipeVars, chunkVars, restVars>>

NextVerdict == ExtensionExtract \/ ChatBoxExtract

InitVerdictSpec == InitPipeline /\ InitVerdict /\ InitChunkIdle /\ InitRestIdle

SpecVerdict == InitVerdictSpec /\ [][NextVerdict]_vars

(***************************************************************************)
(* SpecChunk: chunk_text applied to texts and chunk sizes.                 *)
(***************************************************************************)
ChunkAlphabet == {"a", "b", "."}

InitChunk ==
    /\ content \in SeqsUpTo(ChunkAlphabet, MaxTextLen)
    /\ chunk_size \in 1..MaxChunkSize
    /\ chunks = [done |-> FALSE, out |-> <<>>]

ChunkCall ==
    /\ ~chunks.done
    /\ chunks' = [done |-> TRUE, out |-> chunk_text(content, chunk_size)]
    /\ UNCHANGED <<content, chunk_size, pipeVars, verdictVars, restVars>>

NextChunk == ChunkCall

InitChunkSpec == InitPipeline /\ InitVerdictIdle /\ InitChunk /\ InitRestIdle

SpecChunk == InitChunkSpec /\ [][NextChunk]_vars

(***************************************************************************)
(* SpecRecovery: the pipeline with a crash of the backend inside the       *)
(* paired write, and the reconciliation at startup.                        *)
(***************************************************************************)
InFlight(r) == stage[r] \notin {"NEW", "PERSISTED", "FAILED"}

\* The backend crashes while a request is between the two halves of the paired
\* write.  The requests in flight are lost, the lock is gone with the process,
\* MongoDB keeps what was saved, and the index file on disk holds a prefix of
\* the index in memory.
Crash ==
    /\ serving
    /\ writer # 0
    /\ crashes < MaxCrashes
    /\ \E kept \in Max({0, Len(faiss) - MaxFlushLag})..Len(faiss) :
          faiss' = SubSeq(faiss, 1, kept)
    /\ writer' = 0
    /\ serving' = FALSE
    /\ crashes' = crashes + 1
    /\ stage' = [r \in Requests |-> IF InFlight(r) THEN "FAILED" ELSE stage[r]]
    /\ error' = [r \in Requests |-> IF InFlight(r) THEN "ProcessCrashed" ELSE error[r]]
    /\ wpc' = [r \in Requests |-> IF InFlight(r) THEN "idle" ELSE wpc[r]]
    /\ UNCHANGED <<question, results, pending, position, retrieved, gateDist, context,
                   source_type, response, ragCalls, webCalls, usable, answer, cacheCalls,
                   llmCalls, absorbed, news_articles, fake_news_logs, web_embeddings>>
    /\ UNCHANGED <<rebuilds, verdictVars, chunkVars, adjVars, extVars, chatVars, moreVars>>

\* The index regenerated from MongoDB: position p holds the embedding of the
\* chunk whose record has faiss_index p.
RebuildIndex(meta) ==
    [i \in 1..Len(meta) |->
        LET rec == meta[Min(MetaAt(meta, i - 1))]
        IN  [embedding |-> generate_embedding(rec.content), chunk |-> rec.content]]

\* Startup: load the index, compare the counts, rebuild on a mismatch, serve.
Reconcile_noCheck ==
    /\ ~serving
    /\ serving' = TRUE
    /\ UNCHANGED <<faiss, rebuilds>>
    /\ UNCHANGED <<stage, question, wpc, results, pending, position, retrieved, gateDist,
                   context, source_type, response, error, ragCalls, webCalls, usable,
                   answer, cacheCalls, llmCalls, absorbed, news_articles, fake_news_logs,
                   web_embeddings, writer>>
    /\ UNCHANGED <<crashes, verdictVars, chunkVars, adjVars, extVars, chatVars, moreVars>>

Reconcile ==
    /\ ~serving
    /\ IF Len(faiss) # Len(web_embeddings)
       THEN /\ faiss' = RebuildIndex(web_embeddings)
            /\ rebuilds' = rebuilds + 1
       ELSE UNCHANGED <<faiss, rebuilds>>
    /\ serving' = TRUE
    /\ UNCHANGED <<stage, question, wpc, results, pending, position, retrieved, gateDist,
                   context, source_type, response, error, ragCalls, webCalls, usable,
                   answer, cacheCalls, llmCalls, absorbed, news_articles, fake_news_logs,
                   web_embeddings, writer>>
    /\ UNCHANGED <<crashes, verdictVars, chunkVars, adjVars, extVars, chatVars, moreVars>>

NextRecovery == Next \/ Crash \/ Reconcile

SpecRecovery == Init /\ [][NextRecovery]_vars

(***************************************************************************)
(* SpecCancel: the pipeline with callers that disconnect during            *)
(* WEB_ESCALATION.  The cancellation takes effect where the request waits  *)
(* for an external call (the search, the fetch of a result): that call is  *)
(* abandoned and the request ends.  What the request has ingested stays.   *)
(***************************************************************************)
Cancel_rollback(r) ==
    /\ stage[r] = "WEB_ESCALATION"
    /\ wpc[r] \in {"search", "scrape"}
    /\ writer = 0
    /\ stage' = [stage EXCEPT ![r] = "FAILED"]
    /\ error' = [error EXCEPT ![r] = "Cancelled"]
    /\ wpc' = [wpc EXCEPT ![r] = "idle"]
    /\ faiss' = SubSeq(faiss, 1, Len(faiss) - Min({1, Len(faiss)}))
    /\ UNCHANGED <<question, results, pending, position, retrieved, gateDist, context,
                   source_type, response, ragCalls, webCalls, usable, answer, cacheCalls,
                   llmCalls, absorbed, news_articles, fake_news_logs, web_embeddings,
                   writer>>
    /\ UNCHANGED otherVars

Cancel(r) ==
    /\ stage[r] = "WEB_ESCALATION"
    /\ wpc[r] \in {"search", "scrape"}
    /\ stage' = [stage EXCEPT ![r] = "FAILED"]
    /\ error' = [error EXCEPT ![r] = "Cancelled"]
    /\ wpc' = [wpc EXCEPT ![r] = "idle"]
    /\ UNCHANGED <<question, results, pending, position, retrieved, gateDist, context,
                   source_type, response, ragCalls, webCalls, usable, answer, cacheCalls,
                   llmCalls, absorbed, news_articles, fake_news_logs, web_embeddings,
                   faiss, writer>>
    /\ UNCHANGED otherVars

NextCancel == Next \/ \E r \in Requests : Cancel(r)

SpecCancel == Init /\ [][NextCancel]_vars

(***************************************************************************)
(* SpecExtension: the background service worker.  Each context-menu click  *)
(* runs the async onClicked listener; the listeners of several clicks      *)
(* interleave at their awaits.                                             *)
(***************************************************************************)
extUnchanged == <<pipeVars, verdictVars, chunkVars, adjVars, recVars, chatVars, moreVars>>

\* The calls of sendMessageToContentScript made for a click, cs: a call
\* begins, logs what its awaits did, and ends by returning or throwing.
Begin(cs) == Append(cs, [log |-> <<>>, outcome |-> "running"])
Log(cs, what) == [cs EXCEPT ![Len(cs)].log = Append(@, what)]
End(cs, how) == [cs EXCEPT ![Len(cs)].outcome = how]

\* The call threw: the handler's catch block calls again with SHOW_ERROR,
\* unless the call that threw was that one.
Thrown(cs, c) ==
    IF message[c] = "SHOW_ERROR" THEN End(cs, "threw") ELSE Begin(End(cs, "threw"))

\* chrome.contextMenus.onClicked: a click on the item with selected text
\* starts by sending SHOW_LOADING; any other click does nothing.
onClicked(c) ==
    /\ bpc[c] = "idle"
    /\ \E item \in MenuItems, sel \in SelectionTexts :
          IF item = "verify-nocap" /\ sel # ""
          THEN /\ message' = [message EXCEPT ![c] = "SHOW_LOADING"]
               /\ bpc' = [bpc EXCEPT ![c] = "send"]
               /\ calls' = [calls EXCEPT ![c] = Begin(@)]
          ELSE /\ bpc' = [bpc EXCEPT ![c] = "done"]
               /\ UNCHANGED <<message, calls>>
    /\ UNCHANGED <<delivered, api, sendFailed, listening, extUnchanged>>

\* The await of sendMessageToContentScript returned: after SHOW_LOADING the
\* handler calls verifyText, after SHOW_RESULT or SHOW_ERROR it is finished.
Continue(c) ==
    /\ bpc' = [bpc EXCEPT ![c] = IF message[c] = "SHOW_LOADING" THEN "verify" ELSE "done"]
    /\ UNCHANGED <<message, sendFailed>>

\* sendMessageToContentScript threw.  Inside the try block the catch block
\* sends SHOW_ERROR; inside the catch block the error is only logged.
Throw_swallow(c) == Continue(c)

Throw(c) ==
    /\ sendFailed' = [sendFailed EXCEPT ![c] = @ \cup {message[c]}]
    /\ IF message[c] = "SHOW_ERROR"
       THEN /\ bpc' = [bpc EXCEPT ![c] = "done"]
            /\ UNCHANGED message
       ELSE /\ message' = [message EXCEPT ![c] = "SHOW_ERROR"]
            /\ bpc' = [bpc EXCEPT ![c] = "send"]

\* chrome.tabs.sendMessage with a retry that injects again when it fails.
tabs_sendMessage_retryAgain(c) ==
    /\ bpc[c] \in {"send", "retry"}
    /\ IF listening
       THEN /\ delivered' = [delivered EXCEPT ![c] = Append(@, message[c])]
            /\ calls' = [calls EXCEPT ![c] = End(Log(@, "sent"), "returned")]
            /\ Continue(c)
       ELSE /\ UNCHANGED <<delivered, message, sendFailed>>
            /\ calls' = [calls EXCEPT ![c] = Log(@, "send failed")]
            /\ bpc' = [bpc EXCEPT ![c] = "inject"]
    /\ UNCHANGED <<api, listening, extUnchanged>>

\* chrome.tabs.sendMessage, first attempt and retry: resolves when the content
\* script receives the message, rejects when the tab has no receiving end.
tabs_sendMessage(c) ==
    /\ bpc[c] \in {"send", "retry"}
    /\ IF listening
       THEN /\ delivered' = [delivered EXCEPT ![c] = Append(@, message[c])]
            /\ calls' = [calls EXCEPT ![c] = End(Log(@, "sent"), "returned")]
            /\ Continue(c)
       ELSE /\ UNCHANGED delivered
            /\ IF bpc[c] = "send"
               THEN /\ bpc' = [bpc EXCEPT ![c] = "inject"]
                    /\ calls' = [calls EXCEPT ![c] = Log(@, "send failed")]
                    /\ UNCHANGED <<message, sendFailed>>
               ELSE /\ calls' = [calls EXCEPT ![c] = Thrown(Log(@, "send failed"), c)]
                    /\ Throw(c)
    /\ UNCHANGED <<api, listening, extUnchanged>>

\* chrome.scripting.executeScript({files: ['content.js']}): fails on a
\* restricted page.
executeScript(c) ==
    /\ bpc[c] = "inject"
    /\ \E injected \in BOOLEAN :
          IF injected
          THEN /\ listening' = TRUE
               /\ bpc' = [bpc EXCEPT ![c] = "retry"]
               /\ calls' = [calls EXCEPT ![c] = Log(@, "injected")]
               /\ UNCHANGED <<message, sendFailed>>
          ELSE /\ calls' = [calls EXCEPT ![c] = Thrown(Log(@, "inject failed"), c)]
               /\ Throw(c)
               /\ UNCHANGED listening
    /\ UNCHANGED <<delivered, api, extUnchanged>>

\* verifyText: fetch('http://localhost:8000/ask', ...) is issued.
verifyText(c) ==
    /\ bpc[c] = "verify"
    /\ api' = [api EXCEPT ![c] = "pending"]
    /\ bpc' = [bpc EXCEPT ![c] = "fetch"]
    /\ UNCHANGED <<message, delivered, sendFailed, listening, calls, extUnchanged>>

\* The backend answered with response.ok and a JSON body.
FetchOk(c) ==
    /\ bpc[c] = "fetch"
    /\ api' = [api EXCEPT ![c] = "ok"]
    /\ message' = [message EXCEPT ![c] = "SHOW_RESULT"]
    /\ bpc' = [bpc EXCEPT ![c] = "send"]
    /\ calls' = [calls EXCEPT ![c] = Begin(@)]
    /\ UNCHANGED <<delivered, sendFailed, listening, extUnchanged>>

\* The fetch rejected, or !response.ok, or the body is no JSON: verifyText
\* rethrows and the catch block sends SHOW_ERROR.
FetchFails(c) ==
    /\ bpc[c] = "fetch"
    /\ api' = [api EXCEPT ![c] = "failed"]
    /\ message' = [message EXCEPT ![c] = "SHOW_ERROR"]
    /\ bpc' = [bpc EXCEPT ![c] = "send"]
    /\ calls' = [calls EXCEPT ![c] = Begin(@)]
    /\ UNCHANGED <<delivered, sendFailed, listening, extUnchanged>>

\* The tab loads a page whose content script registers its listener, or
\* navigates to a page where none is listening.
PageChanges ==
    /\ listening' \in BOOLEAN \ {listening}
    /\ UNCHANGED <<bpc, message, delivered, api, sendFailed, calls, extUnchanged>>

NextExtension ==
    \/ \E c \in Clicks :
          \/ onClicked(c)
          \/ tabs_sendMessage(c)
          \/ executeScript(c)
          \/ verifyText(c)
          \/ FetchOk(c)
          \/ FetchFails(c)
    \/ PageChanges

SpecExtension == Init /\ [][NextExtension]_vars

(***************************************************************************)
(* SpecChatBox: the ChatBox component.  Every handler runs to its first    *)
(* await and React renders before the next event.  AnimatePresence with    *)
(* mode="wait" keeps the child whose key left the render mounted, as the   *)
(* element of the last render that contained it, until its exit animation  *)
(* has finished; only then is the new child mounted.  A child whose key    *)
(* stays is re-rendered with the new state.                                *)
(***************************************************************************)
chatUnchanged == <<pipeVars, verdictVars, chunkVars, adjVars, recVars, extVars, moreVars>>

\* The mounted child after a render from the given state.
Rerender(iv, sf, il, sr, h) ==
    IF DesiredKey(il, sr) = view.key THEN Render(iv, sf, il, sr, h) ELSE view

\* The exit animation of a child that left the render has finished.
onExitComplete ==
    /\ view.key # DesiredKey(isLoading, showResult)
    /\ view' = Render(inputValue, selectedFile, isLoading, showResult, history)
    /\ UNCHANGED <<inputValue, selectedFile, isLoading, showResult, in_flight, posted,
                   chatError, history, analysis_history, currentResult, closures, rejected,
                   history_request, chatUnchanged>>

\* The textarea of the input view: enabled unless isLoading, hidden while a
\* file is previewed.
TextareaUsable == view.key = "input" /\ ~view.isLoading /\ view.selectedFile = "none"

\* onChange of the textarea: setInputValue(e.target.value).
onChange ==
    /\ TextareaUsable
    /\ \E v \in InputValues :
          /\ inputValue' = v
          /\ view' = Rerender(v, selectedFile, isLoading, showResult, history)
    /\ UNCHANGED <<selectedFile, isLoading, showResult, in_flight, posted, chatError,
                   history, analysis_history, currentResult, closures, rejected,
                   history_request, chatUnchanged>>

handleFileChange ==
    /\ view.key = "input"
    /\ \E file \in Files :
          /\ selectedFile' = file
          /\ inputValue' = <<>>
          /\ view' = Rerender(<<>>, file, isLoading, showResult, history)
    /\ UNCHANGED <<isLoading, showResult, in_flight, posted, chatError, history,
                   analysis_history, currentResult, closures, rejected, history_request,
                   chatUnchanged>>

\* The remove button of the file preview.
removeImage ==
    /\ view.key = "input" /\ view.selectedFile # "none"
    /\ selectedFile' = "none"
    /\ view' = Rerender(inputValue, "none", isLoading, showResult, history)
    /\ UNCHANGED <<inputValue, isLoading, showResult, in_flight, posted, chatError,
                   history, analysis_history, currentResult, closures, rejected,
                   history_request, chatUnchanged>>

\* handleAnalyze up to its await, called from an element rendered from the
\* state el: the guard reads the inputValue, selectedFile and isLoading of
\* that render, and the continuation will read its history.
handleAnalyze(el) ==
    IF (trim(el.inputValue) = <<>> /\ el.selectedFile = "none") \/ el.isLoading
    THEN UNCHANGED <<isLoading, showResult, view, in_flight, posted, chatError, closures>>
    ELSE /\ posted < MaxPosts
         /\ isLoading' = TRUE
         /\ chatError' = ""
         /\ showResult' = FALSE
         /\ in_flight' = in_flight + 1
         /\ posted' = posted + 1
         /\ closures' = Append(closures, [history |-> el.history])
         /\ view' = Rerender(inputValue, selectedFile, TRUE, FALSE, history)

\* Enter without shift in the textarea.
handleKeyPress ==
    /\ TextareaUsable
    /\ handleAnalyze(view)
    /\ UNCHANGED <<inputValue, selectedFile, history, analysis_history, currentResult,
                   rejected, history_request, chatUnchanged>>

\* Click on the analyze button, enabled by the render's disabled condition.
AnalyzeClick ==
    /\ view.key = "input"
    /\ ~((trim(view.inputValue) = <<>> /\ view.selectedFile = "none") \/ view.isLoading)
    /\ handleAnalyze(view)
    /\ UNCHANGED <<inputValue, selectedFile, history, analysis_history, currentResult,
                   rejected, history_request, chatUnchanged>>

\* addToHistory(result): [result, ...history].slice(0, 20), with the history
\* of the render handleAnalyze was called from.
addToHistory(result, closed) == SubSeq(<<result>> \o closed, 1, Min({HistoryLimit, Len(closed) + 1}))

\* axios.post resolved: result shown and added to the history, inputs cleaned
\* up, finally setIsLoading(false).
PostResolves ==
    /\ \E i \in 1..Len(closures) :
          LET result == [id |-> posted - in_flight + 1]
              newHistory == addToHistory(result, closures[i].history)
          IN  /\ closures' = Without(closures, i)
              /\ currentResult' = result
              /\ history' = newHistory
              /\ analysis_history' = newHistory
              /\ view' = Rerender(<<>>, "none", FALSE, TRUE, newHistory)
    /\ in_flight' = in_flight - 1
    /\ showResult' = TRUE
    /\ inputValue' = <<>>
    /\ selectedFile' = "none"
    /\ isLoading' = FALSE
    /\ UNCHANGED <<posted, chatError, rejected, history_request, chatUnchanged>>

\* axios.post rejected: setError, finally setIsLoading(false).
PostRejects_cleanUp ==
    /\ \E i \in 1..Len(closures), body \in ErrorBodies :
          /\ closures' = Without(closures, i)
          /\ chatError' = ErrorMessage(body)
    /\ in_flight' = in_flight - 1
    /\ rejected' = rejected + 1
    /\ isLoading' = FALSE
    /\ inputValue' = <<>>
    /\ selectedFile' = "none"
    /\ view' = Rerender(<<>>, "none", FALSE, showResult, history)
    /\ UNCHANGED <<showResult, posted, history, analysis_history, currentResult,
                   history_request, chatUnchanged>>

PostRejects ==
    /\ \E i \in 1..Len(closures), body \in ErrorBodies :
          /\ closures' = Without(closures, i)
          /\ chatError' = ErrorMessage(body)
    /\ in_flight' = in_flight - 1
    /\ rejected' = rejected + 1
    /\ isLoading' = FALSE
    /\ view' = Rerender(inputValue, selectedFile, FALSE, showResult, history)
    /\ UNCHANGED <<inputValue, selectedFile, showResult, posted, history,
                   analysis_history, currentResult, history_request, chatUnchanged>>

\* The New Analysis buttons of the sidebar and of the result view.
handleNewAnalysis_keepView ==
    /\ currentResult' = null
    /\ inputValue' = <<>>
    /\ chatError' = ""
    /\ view' = Rerender(<<>>, selectedFile, isLoading, showResult, history)
    /\ UNCHANGED <<selectedFile, isLoading, showResult, in_flight, posted, history,
                   analysis_history, closures, rejected, history_request, chatUnchanged>>

handleNewAnalysis ==
    /\ currentResult' = null
    /\ showResult' = FALSE
    /\ inputValue' = <<>>
    /\ chatError' = ""
    /\ view' = Rerender(<<>>, selectedFile, isLoading, FALSE, history)
    /\ UNCHANGED <<selectedFile, isLoading, in_flight, posted, history, analysis_history,
                   closures, rejected, history_request, chatUnchanged>>

\* response.data.history of GET /session/{id}/history as loadHistory maps it:
\* n records of the session, the most recent first.  Their ids are the
\* backend's, written as negative numbers.
backendHistory(n) == [k \in 1..n |-> [id |-> 0 - k]]

\* Numbers of records the backend may hold for the session.
BackendLengths == {MaxBackendRecords, HistoryLimit + 1}

\* loadHistory after its await, the request having succeeded:
\* setHistory(backendHistory).
loadHistoryResolves ==
    /\ history_request = "pending"
    /\ history_request' = "done"
    /\ \E n \in BackendLengths :
          /\ history' = backendHistory(n)
          /\ view' = Rerender(inputValue, selectedFile, isLoading, showResult,
                              backendHistory(n))
    /\ UNCHANGED <<inputValue, selectedFile, isLoading, showResult, in_flight, posted,
                   chatError, analysis_history, currentResult, closures, rejected,
                   chatUnchanged>>

\* loadHistory after its await, the request having failed: the history saved
\* in localStorage, if there is one.
loadHistoryRejects ==
    /\ history_request = "pending"
    /\ history_request' = "done"
    /\ history' = IF analysis_history # <<>> THEN analysis_history ELSE history
    /\ view' = Rerender(inputValue, selectedFile, isLoading, showResult, history')
    /\ UNCHANGED <<inputValue, selectedFile, isLoading, showResult, in_flight, posted,
                   chatError, analysis_history, currentResult, closures, rejected,
                   chatUnchanged>>

\* Click on an item of the sidebar's history list.
historyClick ==
    /\ \E i \in 1..Len(history) : currentResult' = history[i]
    /\ showResult' = TRUE
    /\ view' = Rerender(inputValue, selectedFile, isLoading, TRUE, history)
    /\ UNCHANGED <<inputValue, selectedFile, isLoading, in_flight, posted, chatError,
                   history, analysis_history, closures, rejected, history_request, chatUnchanged>>

NextChatBox ==
    \/ onChange
    \/ handleFileChange
    \/ removeImage
    \/ handleKeyPress
    \/ AnalyzeClick
    \/ PostResolves
    \/ PostRejects
    \/ handleNewAnalysis
    \/ historyClick
    \/ onExitComplete

SpecChatBox == Init /\ [][NextChatBox]_vars

(***************************************************************************)
(* SpecHistory: ChatBox from its mount, while the request of loadHistory   *)
(* made by the mount effect is still awaited.                              *)
(***************************************************************************)
InitHistory ==
    /\ inputValue = <<>>
    /\ selectedFile = "none"
    /\ isLoading = FALSE
    /\ showResult = FALSE
    /\ view = Render(<<>>, "none", FALSE, FALSE, <<>>)
    /\ in_flight = 0
    /\ posted = 0
    /\ chatError = ""
    /\ history = <<>>
    /\ analysis_history = <<>>
    /\ currentResult = null
    /\ closures = <<>>
    /\ rejected = 0
    /\ history_request = "pending"

InitHistorySpec ==
    /\ InitPipeline /\ InitVerdictIdle /\ InitChunkIdle /\ InitAdjudicateIdle
    /\ InitRecovery /\ InitExtension /\ InitHistory /\ InitMore

NextHistory ==
    \/ loadHistoryResolves
    \/ loadHistoryRejects
    \/ onChange
    \/ AnalyzeClick
    \/ PostResolves
    \/ handleNewAnalysis
    \/ onExitComplete

SpecHistory == InitHistorySpec /\ [][NextHistory]_vars

(***************************************************************************)
(* SpecCacheDown: the pipeline with a Content Store that may be            *)
(* unreachable when the cache is looked up.                                *)
(***************************************************************************)
\* The cache lookup finds the store unreachable and the request fails.
CacheUnavailable_fatal(r) ==
    /\ stage[r] = "CACHE_CHECK"
    /\ stage' = [stage EXCEPT ![r] = "FAILED"]
    /\ error' = [error EXCEPT ![r] = "StorageUnavailable"]
    /\ cacheCalls' = [cacheCalls EXCEPT ![r] = @ + 1]
    /\ absorbed' = [absorbed EXCEPT ![r] =
           @ \cup {[stage |-> "CACHE_CHECK", kind |-> "StorageUnavailable"]}]
    /\ UNCHANGED <<question, wpc, results, pending, position, retrieved, gateDist,
                   context, source_type, response, ragCalls, webCalls, usable, answer,
                   llmCalls, news_articles, fake_news_logs, web_embeddings, faiss, writer>>
    /\ UNCHANGED otherVars

\* The cache lookup finds the store unreachable: the failure is logged and
\* the request goes on without the cache tier.
CacheUnavailable(r) ==
    /\ stage[r] = "CACHE_CHECK"
    /\ stage' = [stage EXCEPT ![r] = "RAG_LOOKUP"]
    /\ cacheCalls' = [cacheCalls EXCEPT ![r] = @ + 1]
    /\ absorbed' = [absorbed EXCEPT ![r] =
           @ \cup {[stage |-> "CACHE_CHECK", kind |-> "StorageUnavailable"]}]
    /\ UNCHANGED <<question, wpc, results, pending, position, retrieved, gateDist,
                   context, source_type, response, error, ragCalls, webCalls, usable,
                   answer, llmCalls, news_articles, fake_news_logs, web_embeddings, faiss,
                   writer>>
    /\ UNCHANGED otherVars

NextCacheDown ==
    \/ Next
    \/ \E r \in Requests : CacheUnavailable(r)

SpecCacheDown == Init /\ [][NextCacheDown]_vars

(***************************************************************************)
(* SpecRequest: the session of ChatBox and the requests it posts.  The     *)
(* component is mounted by a page load; its mount effect runs before any   *)
(* event of the user is handled.  One request is followed to its response  *)
(* at a time.                                                              *)
(***************************************************************************)
requestUnchanged ==
    <<pipeVars, verdictVars, chunkVars, adjVars, recVars, extVars, chatVars, modalVars,
      searchVars>>

\* The mount effect with a fresh identifier on every mount.
Mount_alwaysGenerate ==
    /\ mounts < MaxMounts
    /\ mounts' = mounts + 1
    /\ generated' = generated + 1
    /\ fake_news_session_id' = UUIDs[generated + 1]
    /\ sessionId' = UUIDs[generated + 1]
    /\ typed' = <<>>
    /\ chosen' = "none"
    /\ requests' = <<>>
    /\ UNCHANGED requestUnchanged

\* A page load: the state of the component starts again, and the effect
\* "Initialize session ID on mount" reads the stored identifier, generating
\* and storing one when there is none, and sets sessionId.
Mount ==
    /\ mounts < MaxMounts
    /\ mounts' = mounts + 1
    /\ IF fake_news_session_id = "null"
       THEN /\ generated' = generated + 1
            /\ fake_news_session_id' = UUIDs[generated + 1]
            /\ sessionId' = UUIDs[generated + 1]
       ELSE /\ sessionId' = fake_news_session_id
            /\ UNCHANGED <<generated, fake_news_session_id>>
    /\ typed' = <<>>
    /\ chosen' = "none"
    /\ requests' = <<>>
    /\ UNCHANGED requestUnchanged

\* onChange of the textarea, shown while no file is selected and enabled
\* while no request is awaited.
TypeText ==
    /\ mounts > 0 /\ chosen = "none" /\ requests = <<>>
    /\ \E v \in RequestTexts : typed' = v
    /\ UNCHANGED <<fake_news_session_id, sessionId, generated, mounts, chosen, requests,
                   requestUnchanged>>

\* handleFileChange: the file is selected and the text cleared.
ChooseFile ==
    /\ mounts > 0 /\ requests = <<>>
    /\ \E file \in Files : chosen' = file
    /\ typed' = <<>>
    /\ UNCHANGED <<fake_news_session_id, sessionId, generated, mounts, requests,
                   requestUnchanged>>

\* removeImage.
RemoveFile ==
    /\ mounts > 0 /\ chosen # "none" /\ requests = <<>>
    /\ chosen' = "none"
    /\ UNCHANGED <<fake_news_session_id, sessionId, generated, mounts, typed, requests,
                   requestUnchanged>>

\* handleAnalyze up to its await: past the guard, the request is posted.
\* read records the inputValue and selectedFile the handler read.
PostRequest ==
    /\ mounts > 0 /\ requests = <<>>
    /\ ~(trim(typed) = <<>> /\ chosen = "none")
    /\ LET req == AnalyzeRequest(typed, chosen, sessionId)
       IN  requests' = <<[endpoint |-> req.endpoint, body |-> req.body,
                          read |-> [inputValue |-> typed, selectedFile |-> chosen]]>>
    /\ UNCHANGED <<fake_news_session_id, sessionId, generated, mounts, typed, chosen,
                   requestUnchanged>>

\* The response arrived: the inputs are cleaned up.
ResponseOk ==
    /\ requests # <<>>
    /\ requests' = <<>>
    /\ typed' = <<>>
    /\ chosen' = "none"
    /\ UNCHANGED <<fake_news_session_id, sessionId, generated, mounts, requestUnchanged>>

\* The request failed: the inputs stay.
ResponseError ==
    /\ requests # <<>>
    /\ requests' = <<>>
    /\ UNCHANGED <<fake_news_session_id, sessionId, generated, mounts, typed, chosen,
                   requestUnchanged>>

NextRequest ==
    \/ Mount
    \/ TypeText
    \/ ChooseFile
    \/ RemoveFile
    \/ PostRequest
    \/ ResponseOk
    \/ ResponseError

SpecRequest == Init /\ [][NextRequest]_vars

(***************************************************************************)
(* SpecSearch: index.search applied to bounded indexes, queries and top_k. *)
(***************************************************************************)
InitSearch ==
    /\ flat_index \in SeqsUpTo({[embedding |-> e] : e \in 0..MaxCoordinate}, MaxIndexLen)
    /\ query_vector \in 0..MaxCoordinate
    /\ top_k \in 1..MaxTopK
    /\ neighbours = [done |-> FALSE, out |-> <<>>]

SearchCall ==
    /\ ~neighbours.done
    /\ neighbours' = [done |-> TRUE, out |-> Search(flat_index, query_vector, top_k)]
    /\ UNCHANGED <<flat_index, query_vector, top_k, modalVars, requestVars, pipeVars,
                   verdictVars, chunkVars, adjVars, recVars, extVars, chatVars>>

NextSearch == SearchCall

InitSearchSpec ==
    /\ InitPipeline /\ InitVerdictIdle /\ InitChunkIdle /\ InitAdjudicateIdle
    /\ InitRecovery /\ InitExtension /\ InitChatBox /\ InitModal /\ InitSearch
    /\ InitRequest

SpecSearch == InitSearchSpec /\ [][NextSearch]_vars

(***************************************************************************)
(* SpecModal: the content script of one page.  The messages of the         *)
(* background worker arrive in any order (those of two verifications       *)
(* overlap), and the user may click the close button of the visible card.  *)
(***************************************************************************)
modalUnchanged ==
    <<pipeVars, verdictVars, chunkVars, adjVars, recVars, extVars, chatVars, searchVars,
      requestVars>>

Actions == {"SHOW_LOADING", "SHOW_RESULT", "SHOW_ERROR"}

\* showModal(text, "LOADING"): createModal unless a shadow root is held, then
\* the old card is replaced by a loading card.  createModal attaches a new
\* element with a new shadow root.
showModal ==
    /\ shadowRoot' = "root"
    /\ attached' = IF shadowRoot = "null" THEN TRUE ELSE attached
    /\ card' = "LOADING"
    /\ UNCHANGED threw

\* updateModal(data) and showError(msg) start with
\* shadowRoot.querySelector('.card'): a TypeError when shadowRoot is null.
\* Without a card they return; with one they rewrite it.
Rewrite(fn, kind) ==
    IF shadowRoot = "null"
    THEN /\ threw' = threw \cup {fn}
         /\ UNCHANGED <<shadowRoot, attached, card>>
    ELSE /\ card' = IF card = "none" THEN card ELSE kind
         /\ UNCHANGED <<shadowRoot, attached, threw>>

\* chrome.runtime.onMessage listener.
onMessage(action) ==
    /\ Len(events) < MaxEvents
    /\ events' = Append(events, action)
    /\ CASE action = "SHOW_LOADING" -> showModal
         [] action = "SHOW_RESULT" -> Rewrite("updateModal", "RESULT")
         [] action = "SHOW_ERROR" -> Rewrite("showError", "ERROR")
    /\ UNCHANGED modalUnchanged

\* onclick of the card's .close: modalContainer.remove(); the handler the
\* result card got from updateModal also resets shadowRoot to null.
closeClick ==
    /\ Len(events) < MaxEvents
    /\ attached /\ card # "none"
    /\ events' = Append(events, "close")
    /\ attached' = FALSE
    /\ IF card = "RESULT"
       THEN shadowRoot' = "null" /\ card' = "none"
       ELSE UNCHANGED <<shadowRoot, card>>
    /\ UNCHANGED <<threw, modalUnchanged>>

NextModal ==
    \/ \E action \in Actions : onMessage(action)
    \/ closeClick

SpecModal == Init /\ [][NextModal]_vars

(***************************************************************************)
(* SpecAdjudicate: the record and the response built from an LLM answer.   *)
(***************************************************************************)
AnswerFragments ==
    {FAKE, <<"f", "a", "k", "e">>, TRUE_, MISLEADING, <<" ">>, <<"x">>,
     <<"0">>, <<"9", "0">>, <<"1", "0", "0">>, <<"1", "0", "1">>, <<"1", "5", "0">>}

LlmAnswers == {Concat(fs) : fs \in SeqsUpTo(AnswerFragments, MaxAnswerFrags)} \cup {DEGRADED}

Tiers == {CacheTag, RagTag, WebTag}

InitAdjudicate ==
    /\ llm_answer \in LlmAnswers
    /\ tier \in Tiers
    /\ adjudged = [done |-> FALSE]

\* The confidence of a record: fixed for a cached answer, calculated otherwise.
ConfidenceOf(tag, ans) ==
    IF tag = CacheTag THEN CacheConfidence ELSE calculate_confidence(tag, ans)

\* save_chat_message() and the response, as CacheCheck and Persist build them.
Adjudicate ==
    /\ ~adjudged.done
    /\ LET r == Min(Requests)
           conf == ConfidenceOf(tier, llm_answer)
       IN  adjudged' = [done |-> TRUE,
                        record |-> ChatMessage(r, llm_answer, tier, conf, <<>>),
                        response |-> Response(llm_answer, tier, conf, <<>>)]
    /\ UNCHANGED <<llm_answer, tier, pipeVars, verdictVars, chunkVars, recVars, extVars, chatVars, moreVars>>

NextAdjudicate == Adjudicate

InitAdjudicateSpec ==
    /\ InitPipeline /\ InitVerdictIdle /\ InitChunkIdle
    /\ InitAdjudicate /\ InitRecovery /\ InitExtension /\ InitChatBox /\ InitMore

SpecAdjudicate == InitAdjudicateSpec /\ [][NextAdjudicate]_vars

(***************************************************************************)
(* Properties.                                                             *)
(***************************************************************************)
Rank(st) ==
    CASE st = "NEW" -> 0
      [] st = "CACHE_CHECK" -> 1
      [] st = "RAG_LOOKUP" -> 2
      [] st = "WEB_ESCALATION" -> 3
      [] st = "ADJUDICATION" -> 4
      [] st = "PERSISTED" -> 5
      [] st = "FAILED" -> 6

Terminal == {"PERSISTED", "FAILED"}

\* The request leaves CACHE_CHECK in this step with a matching saved answer.
CacheHitStep(r) ==
    /\ stage[r] = "CACHE_CHECK"
    /\ stage'[r] # "CACHE_CHECK"
    /\ search_news_article(question[r]) # {}

AnsweredFromCache(r, tag) ==
    /\ stage[r] = "PERSISTED"
    /\ response[r] # <<>>
    /\ response[r][1].source_type = tag

C2_ForwardOnly ==
    [][\A r \in Requests :
            /\ Rank(stage'[r]) >= Rank(stage[r])
            /\ stage[r] \in Terminal => stage'[r] = stage[r]]_vars

C2_Witness ==
    \E r1, r2 \in Requests :
        /\ stage[r1] = "PERSISTED" /\ webCalls[r1] = 1 /\ ragCalls[r1] = 2
        /\ stage[r2] = "FAILED"

\* The lowest distance of a retrieval result; -1 when the result is empty.
LowestDistance(found) ==
    IF found = <<>> THEN -1 ELSE Min({found[i].dist : i \in 1..Len(found)})

\* C3: the request leaves RAG_LOOKUP for ADJUDICATION tagged "rag" exactly when
\* the lowest distance of its retrieval result is strictly below 100, and for
\* WEB_ESCALATION otherwise (a distance of exactly 100, or an empty result).
C3_ThresholdGate ==
    [][\A r \in Requests :
            (stage[r] = "RAG_LOOKUP" /\ stage'[r] \notin {"RAG_LOOKUP", "FAILED"}) =>
                LET d == LowestDistance(retrieved'[r])
                IN  IF d >= 0 /\ d < 100
                    THEN stage'[r] = "ADJUDICATION" /\ source_type'[r] = "rag"
                    ELSE stage'[r] = "WEB_ESCALATION" /\ source_type'[r] # "rag"]_vars

C3_Witness ==
    \E r \in Requests :
        /\ stage[r] = "WEB_ESCALATION"
        /\ retrieved[r] # <<>>
        /\ LowestDistance(retrieved[r]) = 100

\* Which tier produced the answer of a request, read off the calls it made.
TierOf(r) ==
    IF webCalls[r] >= 1 THEN "web tier"
    ELSE IF ragCalls[r] >= 1 THEN "rag tier"
    ELSE "cache tier"

WithoutEvidence(r) ==
    /\ webCalls[r] >= 1
    /\ usable[r] = 0
    /\ stage[r] # "WEB_ESCALATION"

\* C5: a request whose web search failed or gave no usable document goes on to
\* ADJUDICATION with the "no evidence found" context, tagged "web"; it is
\* persisted as a "web" record, and it is never FAILED for the missing evidence
\* (only for unreachable storage).
C5_EscalationFallback ==
    \A r \in Requests : WithoutEvidence(r) =>
        /\ context[r] = NO_EVIDENCE
        /\ source_type[r] = "web"
        /\ stage[r] \in {"ADJUDICATION", "PERSISTED", "FAILED"}
        /\ stage[r] = "FAILED" => error[r] = "StorageUnavailable"
        /\ stage[r] = "PERSISTED" =>
              \E i \in 1..Len(news_articles) :
                  /\ news_articles[i].request = r
                  /\ news_articles[i].source_type = "web"

C5_Witness ==
    \E r1, r2 \in Requests :
        /\ WithoutEvidence(r1) /\ stage[r1] = "PERSISTED" /\ ragCalls[r1] = 1
        /\ WithoutEvidence(r2) /\ stage[r2] = "PERSISTED" /\ ragCalls[r2] = 2

\* C6: whenever no paired write is in progress, the FAISS index and the
\* metadata collection have the same number of entries, and every position a
\* search returns has exactly one metadata record, whose content_hash is that
\* of the chunk embedded at the position.
C6_IndexStoreAlignment ==
    writer = 0 =>
        /\ Len(faiss) = Len(web_embeddings)
        /\ \A raw \in RawClaims :
              LET hits == Search(faiss, generate_embedding(sanitize_input(raw)), TopK)
              IN  \A h \in 1..Len(hits) :
                      LET at == MetaAt(web_embeddings, hits[h].pos)
                      IN  /\ Cardinality(at) = 1
                          /\ \A i \in at :
                                web_embeddings[i].content_hash =
                                    content_hash(faiss[hits[h].pos + 1].chunk)

C6_Witness ==
    /\ writer = 0
    /\ Len(faiss) >= 4
    /\ \E i \in 1..(Len(web_embeddings) - 2) :
          /\ web_embeddings[i].source_url = "u2"
          /\ web_embeddings[i + 1].source_url = "u1"
          /\ web_embeddings[i + 2].source_url = "u2"

\* The requests between the FAISS add and the metadata save of a chunk.
InPairedWrite == {r \in Requests : wpc[r] = "save"}

\* C7: at most one request is inside the paired write at any moment.
C7_SingleWriter == Cardinality(InPairedWrite) <= 1

C7_Witness ==
    \E r1, r2 \in Requests :
        /\ wpc[r1] = "save"
        /\ wpc[r2] = "add"
        /\ writer = r1

\* pat occurs in s as a contiguous run of characters.
Occurs(s, pat) ==
    \E i \in 1..Len(s) :
        i + Len(pat) - 1 <= Len(s) /\ SubSeq(s, i, i + Len(pat) - 1) = pat

PriorityVerdict(s) ==
    IF Occurs(s, FAKE) THEN "FAKE"
    ELSE IF Occurs(s, CREDIBLE) \/ Occurs(s, TRUE_) THEN "CREDIBLE"
    ELSE IF Occurs(s, MISLEADING) THEN "MISLEADING"
    ELSE "UNCERTAIN"

\* C8: the extension's extractVerdict yields FAKE for a text containing FAKE,
\* otherwise CREDIBLE for one containing CREDIBLE or TRUE, otherwise MISLEADING
\* for one containing MISLEADING, otherwise UNCERTAIN, in whatever order the
\* tokens occur.
C8_VerdictPriority ==
    extVerdict.text # "none" =>
        /\ extVerdict.text = PriorityVerdict(text)
        /\ extVerdict.variant = PriorityVerdict(variant)

C8_Witness ==
    /\ extVerdict.text = "FAKE"
    /\ text = MISLEADING \o TRUE_ \o FAKE

\* C9: an answer with a verdict token in lower or mixed case yields the same
\* verdict as the answer with that token in upper case, for the extension's
\* extractor and for ChatBox's.
C9_CaseInsensitive ==
    /\ extVerdict.text # "none" => extVerdict.text = extVerdict.variant
    /\ chatVerdict.text # "none" => chatVerdict.text = chatVerdict.variant

\* C10: the chunks of chunk_text, concatenated in order, are the text, and no
\* chunk is longer than chunk_size.
C10_ChunkCoverage ==
    chunks.done =>
        /\ Concat(chunks.out) = content
        /\ \A i \in 1..Len(chunks.out) : Len(chunks.out[i]) <= chunk_size

C10_Witness ==
    /\ chunks.done
    /\ chunk_size = 2
    /\ Len(content) = 4
    /\ \A i \in 1..Len(content) : content[i] \notin Boundary
    /\ Len(chunks.out) = 2

\* The oldest saved record of a question.
OldestRecord(q) == news_articles[Min(search_news_article(q))]

\* Request r2 leaves CACHE_CHECK in this step while another request with the
\* identical claim is PERSISTED.
RepeatStep(r1, r2) ==
    /\ r1 # r2
    /\ stage[r1] = "PERSISTED"
    /\ question[r1] = question[r2]
    /\ stage[r2] = "CACHE_CHECK"
    /\ stage'[r2] # "CACHE_CHECK"

RepeatAnswer(r2, tag) ==
    /\ stage'[r2] = "PERSISTED"
    /\ response'[r2] # <<>>
    /\ response'[r2][1].source_type = tag
    /\ response'[r2][1].confidence = 95
    /\ response'[r2][1].answer = OldestRecord(question[r2]).answer
    /\ stage[OldestRecord(question[r2]).request] = "PERSISTED"

RecordsOf(r) == {i \in 1..Len(news_articles) : news_articles[i].request = r}

\* C12: from an empty store and index, a request with a non-empty claim misses
\* the cache, gets an empty retrieval result and goes to WEB_ESCALATION; when
\* documents were ingested and the LLM answered "VERDICT: FAKE 90", its
\* record and its response carry source_type "web", verdict FAKE, confidence 90.
C12_ColdStartScenario ==
    /\ [][\A r \in Requests :
            (stage[r] = "RAG_LOOKUP" /\ faiss = <<>> /\ stage'[r] \notin {"RAG_LOOKUP", "FAILED"})
                => (stage'[r] = "WEB_ESCALATION" /\ gateDist'[r] = -1)]_vars
    /\ [](\A r \in Requests :
            (ragCalls[r] >= 1 /\ gateDist[r] = -1) =>
                /\ question[r] # <<>>
                /\ cacheCalls[r] = 1
                /\ stage[r] \in {"WEB_ESCALATION", "ADJUDICATION", "PERSISTED", "FAILED"}
                /\ (stage[r] = "PERSISTED" /\ usable[r] >= 1 /\ answer[r] = FAKE_90) =>
                      /\ RecordsOf(r) # {}
                      /\ \A i \in RecordsOf(r) :
                            /\ news_articles[i].source_type = "web"
                            /\ news_articles[i].verdict = "FAKE"
                            /\ news_articles[i].confidence = 90
                      /\ response[r][1].source_type = "web"
                      /\ response[r][1].verdict = "FAKE"
                      /\ response[r][1].confidence = 90)

C12_Witness ==
    \E r \in Requests :
        /\ stage[r] = "PERSISTED"
        /\ gateDist[r] = -1
        /\ usable[r] = 2
        /\ Len(faiss) >= 3
        /\ answer[r] = FAKE_90
        /\ \E i \in RecordsOf(r) : news_articles[i].confidence = 90

Verdicts == {"FAKE", "CREDIBLE", "MISLEADING", "UNCERTAIN"}

C14_EmptyClaimRejected ==
    \A r \in Requests :
        /\ (stage[r] # "NEW" /\ question[r] = <<>>) =>
              /\ stage[r] = "FAILED"
              /\ error[r] = "InvalidInput"
              /\ cacheCalls[r] = 0
              /\ ragCalls[r] = 0
              /\ webCalls[r] = 0
              /\ llmCalls[r] = 0
              /\ answer[r] = <<>>
              /\ response[r] = <<>>
              /\ RecordsOf(r) = {}
        /\ error[r] = "InvalidInput" => question[r] = <<>>

C14_Witness ==
    \E r1, r2 \in Requests :
        /\ error[r1] = "InvalidInput" /\ stage[r1] = "FAILED"
        /\ stage[r2] = "PERSISTED" /\ webCalls[r2] = 1

\* The LLM call of the request has ended without an answer.
LlmFailed(r) == llmCalls[r] >= 1 /\ answer[r] \notin Answers

\* C15: a failed LLM call is not propagated: the request carries no error of
\* the LLM, goes on with the explanatory answer, and its response has the
\* verdict UNCERTAIN.
C15_DegradedResponse ==
    \A r \in Requests :
        /\ error[r] \notin (LlmErrors \cup {"StageTimeout"})
        /\ LlmFailed(r) =>
              /\ answer[r] = DEGRADED
              /\ stage[r] \in {"ADJUDICATION", "PERSISTED", "FAILED"}
              /\ stage[r] = "FAILED" => error[r] = "StorageUnavailable"
              /\ stage[r] = "PERSISTED" =>
                    /\ response[r] # <<>>
                    /\ response[r][1].verdict = "UNCERTAIN"
                    /\ response[r][1].answer = DEGRADED

C15_Witness ==
    \E r \in Requests :
        /\ stage[r] = "PERSISTED"
        /\ absorbed[r] = {[stage |-> "ADJUDICATION", kind |-> "RateLimited"]}
        /\ response[r][1].verdict = "UNCERTAIN"
        /\ error[r] = "none"

\* C16: under fairness of the backend's own steps, every submitted request
\* eventually reaches PERSISTED or FAILED, even when the LLM call and the
\* fetches never return: the time limits cut them off.
C16_Termination ==
    \A r \in Single : (stage[r] # "NEW") ~> (stage[r] \in Terminal)

C16_Witness ==
    \E r \in Single :
        /\ stage[r] = "PERSISTED"
        /\ [stage |-> "WEB_ESCALATION", kind |-> "StageTimeout"] \in absorbed[r]
        /\ [stage |-> "ADJUDICATION", kind |-> "StageTimeout"] \in absorbed[r]

\* The retrieval result of the request passed the score threshold check.
PassedGate(r) == gateDist[r] >= 0 /\ gateDist[r] < Threshold

\* C17: the web search is called for a request only in WEB_ESCALATION, after
\* its cache lookup missed and its retrieval result failed the threshold check
\* (empty, or best distance not below 100); a request whose result passed the
\* check never calls it.
C17_WebOnlyAfterGateFails ==
    /\ [][\A r \in Requests : webCalls'[r] # webCalls[r] =>
            /\ stage[r] = "WEB_ESCALATION"
            /\ cacheCalls[r] = 1
            /\ ragCalls[r] = 1
            /\ ~PassedGate(r)
            /\ response[r] = <<>>]_vars
    /\ [](\A r \in Requests :
            /\ PassedGate(r) => (webCalls[r] = 0 /\ stage[r] # "WEB_ESCALATION")
            /\ webCalls[r] >= 1 =>
                  \A i \in RecordsOf(r) : news_articles[i].source_type \notin {"db", "rag"})

C17_Witness ==
    \E r1, r2 \in Requests :
        /\ gateDist[r1] = 81 /\ webCalls[r1] = 0 /\ stage[r1] = "PERSISTED"
        /\ gateDist[r2] = -1 /\ webCalls[r2] = 1 /\ stage[r2] = "PERSISTED"

\* Every chunk of a retrieval result is the chunk embedded at its position.
ResolvedRight(found) ==
    \A i \in 1..Len(found) :
        /\ found[i].pos < Len(faiss)
        /\ found[i].content = faiss[found[i].pos + 1].chunk

\* C18: after a crash inside the paired write the backend serves again only
\* once the index and the metadata have the same number of entries (the index
\* is rebuilt from MongoDB on a mismatch), and every retrieval, before the
\* crash and after the restart, resolves each position to the chunk embedded
\* at that position.
C18_RebuildOnMismatch ==
    /\ []((serving /\ writer = 0) =>
            /\ Len(faiss) = Len(web_embeddings)
            /\ \A p \in 0..(Len(faiss) - 1) :
                  /\ Cardinality(MetaAt(web_embeddings, p)) = 1
                  /\ \A i \in MetaAt(web_embeddings, p) :
                        web_embeddings[i].content = faiss[p + 1].chunk)
    /\ [][\A r \in Requests : ragCalls'[r] # ragCalls[r] =>
            /\ serving
            /\ ResolvedRight(retrieved'[r])]_vars

C18_Witness ==
    /\ crashes = 1
    /\ rebuilds = 1
    /\ serving
    /\ \E r1, r2 \in Requests :
          /\ error[r1] = "ProcessCrashed"
          /\ stage[r2] = "ADJUDICATION"
          /\ retrieved[r2] # <<>>
          /\ ResolvedRight(retrieved[r2])

\* The actions delivered to the content script for a click.
Delivered(c) == {delivered[c][i] : i \in 1..Len(delivered[c])}

\* C19: for each click, the backend request is issued only after SHOW_LOADING
\* was delivered; SHOW_RESULT is sent only after the backend answered
\* successfully; SHOW_ERROR is sent only after the request or an earlier send
\* of the click failed; SHOW_RESULT and SHOW_ERROR are never both delivered.
C19_MessageOrder ==
    \A c \in Clicks :
        /\ api[c] # "none" => (delivered[c] # <<>> /\ delivered[c][1] = "SHOW_LOADING")
        /\ bpc[c] = "verify" => "SHOW_LOADING" \in Delivered(c)
        /\ (message[c] = "SHOW_RESULT" \/ "SHOW_RESULT" \in Delivered(c)) => api[c] = "ok"
        /\ (message[c] = "SHOW_ERROR" \/ "SHOW_ERROR" \in Delivered(c)) =>
              (api[c] = "failed" \/ sendFailed[c] \cap {"SHOW_LOADING", "SHOW_RESULT"} # {})
        /\ ~({"SHOW_RESULT", "SHOW_ERROR"} \subseteq Delivered(c))

C19_Witness ==
    \E c1, c2 \in Clicks :
        /\ bpc[c1] = "done" /\ delivered[c1] = <<"SHOW_LOADING", "SHOW_RESULT">>
        /\ bpc[c2] = "done" /\ delivered[c2] = <<"SHOW_LOADING", "SHOW_ERROR">>
        /\ api[c2] = "ok" /\ sendFailed[c2] = {"SHOW_RESULT"}

\* C20: handleAnalyze issues a backend request only while no analysis request
\* is in flight, isLoading is false, and the trimmed input is non-empty or a
\* file is selected; so at most one request is in flight at any time.
C20_OneRequestInFlight ==
    [][in_flight' > in_flight =>
         /\ in_flight = 0
         /\ ~isLoading
         /\ (trim(inputValue) # <<>> \/ selectedFile # "none")]_vars

\* C21: whatever messages and close clicks the content script handles,
\* updateModal and showError never run against a null shadowRoot: a message
\* that arrives while no modal exists raises no exception.
C21_NoNullShadowRoot == threw \cap {"updateModal", "showError"} = {}

\* C22: each request that reached PERSISTED has exactly one Verification
\* Record and every other request has none; a record, once written, is never
\* modified or removed: the collection only grows by appends.
C22_OneImmutableRecord ==
    /\ [](\A r \in Requests :
            Cardinality(RecordsOf(r)) = IF stage[r] = "PERSISTED" THEN 1 ELSE 0)
    /\ [][/\ Len(news_articles') >= Len(news_articles)
          /\ SubSeq(news_articles', 1, Len(news_articles)) = news_articles]_vars

C22_Witness ==
    /\ \A r \in Requests : stage[r] = "PERSISTED"
    /\ Len(news_articles) = NumRequests
    /\ news_articles[1].source_type = WebTag
    /\ news_articles[2].request # news_articles[1].request

\* The audit entries logged for a request.
AuditsOf(r) == {i \in 1..Len(fake_news_logs) : fake_news_logs[i].request = r}

\* C23: a request has a fake-news-detection audit entry exactly when it is
\* PERSISTED with a web-tier result, and then one; the entry is written beside
\* the Verification Record, not instead of it; cache-tier and rag-tier results
\* have none.
C23_AuditOnlyForWeb ==
    \A r \in Requests :
        /\ Cardinality(AuditsOf(r)) =
               IF stage[r] = "PERSISTED" /\ source_type[r] = WebTag THEN 1 ELSE 0
        /\ AuditsOf(r) # {} => Cardinality(RecordsOf(r)) = 1

C23_Witness ==
    \E r1, r2 \in Requests :
        /\ stage[r1] = "PERSISTED" /\ source_type[r1] = WebTag /\ AuditsOf(r1) # {}
        /\ stage[r2] = "PERSISTED" /\ source_type[r2] = RagTag /\ AuditsOf(r2) = {}
        /\ Len(fake_news_logs) = 1 /\ Len(news_articles) = 2

\* The next result of the request is dropped in this step without having
\* given a usable document: its fetch failed or was cut off.
FetchSkipped(r) ==
    /\ stage[r] = "WEB_ESCALATION" /\ wpc[r] = "scrape"
    /\ results'[r] # results[r]
    /\ usable'[r] = usable[r]

\* C24: a failed fetch of one result during WEB_ESCALATION is skipped: the
\* request does not fail, the results after it stay to be fetched (the web
\* tier goes on with the next one, or with the retrieval after the last), and
\* nothing ingested so far is lost.
C24_FailedFetchSkipped ==
    [][\A r \in Requests :
          FetchSkipped(r) =>
              /\ stage'[r] = "WEB_ESCALATION" /\ error'[r] = error[r]
              /\ results'[r] = Tail(results[r])
              /\ wpc'[r] = IF results'[r] # <<>> THEN "scrape" ELSE "retrieve"
              /\ faiss' = faiss /\ web_embeddings' = web_embeddings]_vars

C24_Witness ==
    \E r \in Requests :
        /\ [stage |-> "WEB_ESCALATION", kind |-> "StageTimeout"] \in absorbed[r]
        /\ usable[r] >= 1 /\ web_embeddings # <<>>
        /\ stage[r] = "PERSISTED" /\ source_type[r] = WebTag /\ error[r] = "none"

\* The request fails in this step because storage is unreachable.
StorageFails(r) == error[r] = "none" /\ error'[r] = "StorageUnavailable"

Cancelled(r) == error[r] = "none" /\ error'[r] = "Cancelled"

\* C26: cancelling a request during WEB_ESCALATION leaves the index and the
\* metadata as they are; whenever no paired write is in progress they have the
\* same length, every chunk saved is embedded at its position, and, while the
\* index holds no more than top_k entries, retrieve returns every saved chunk.
C26_PartialIngestionKept ==
    /\ [][\A r \in Requests :
            Cancelled(r) => UNCHANGED <<faiss, web_embeddings, writer>>]_vars
    /\ [](writer = 0 =>
            /\ Len(faiss) = Len(web_embeddings)
            /\ \A i \in 1..Len(web_embeddings) :
                  /\ web_embeddings[i].faiss_index < Len(faiss)
                  /\ faiss[web_embeddings[i].faiss_index + 1].chunk = web_embeddings[i].content
            /\ Len(faiss) <= TopK =>
                  \A raw \in RawClaims :
                      LET found == retrieve(sanitize_input(raw), TopK)
                      IN  \A i \in 1..Len(web_embeddings) :
                              \E h \in 1..Len(found) :
                                  /\ found[h].pos = web_embeddings[i].faiss_index
                                  /\ found[h].content = web_embeddings[i].content)

C26_Witness ==
    \E r1, r2 \in Requests :
        /\ stage[r1] = "FAILED" /\ error[r1] = "Cancelled" /\ usable[r1] >= 1
        /\ web_embeddings # <<>>
        /\ webCalls[r2] = 0 /\ ragCalls[r2] = 1 /\ retrieved[r2] # <<>>
        /\ stage[r2] \in {"ADJUDICATION", "PERSISTED"}

\* C27: the index changes only by an add that appends one entry at the next
\* unused position, which the adding request records; no entry is rewritten
\* or removed; the positions the metadata refers to are distinct and exist,
\* and, with no paired write in progress, they are exactly 0..n-1.
C27_AppendOnlyIndex ==
    /\ [][faiss' # faiss =>
            /\ Len(faiss') = Len(faiss) + 1
            /\ SubSeq(faiss', 1, Len(faiss)) = faiss
            /\ \E r \in Requests : wpc[r] = "add" /\ position'[r] = Len(faiss)]_vars
    /\ [](/\ \A i, j \in 1..Len(web_embeddings) :
                web_embeddings[i].faiss_index = web_embeddings[j].faiss_index => i = j
          /\ \A i \in 1..Len(web_embeddings) : web_embeddings[i].faiss_index < Len(faiss)
          /\ writer = 0 =>
                {web_embeddings[i].faiss_index : i \in 1..Len(web_embeddings)}
                    = 0..(Len(faiss) - 1))

C27_Witness ==
    /\ writer = 0 /\ Len(faiss) >= 3
    /\ \A r \in Requests : webCalls[r] = 1 /\ usable[r] >= 1
    /\ {web_embeddings[i].faiss_index : i \in 1..Len(web_embeddings)} = 0..(Len(faiss) - 1)

\* C28: search returns at most top_k entries (all of the index when it holds
\* fewer), each a distinct existing position with its distance to the query,
\* in order of non-decreasing distance, no entry left out being nearer than
\* one returned; on an empty index the result is the empty sequence.
C28_SearchResult ==
    neighbours.done =>
        LET out == neighbours.out
            dist(p) == L2(flat_index[p + 1].embedding, query_vector)
            returned == {out[h].pos : h \in 1..Len(out)}
        IN  /\ Len(out) = Min({top_k, Len(flat_index)})
            /\ flat_index = <<>> => out = <<>>
            /\ \A h \in 1..Len(out) :
                  /\ out[h].pos \in 0..(Len(flat_index) - 1)
                  /\ out[h].dist = dist(out[h].pos)
            /\ \A h1, h2 \in 1..Len(out) :
                  /\ h1 < h2 => out[h1].dist <= out[h2].dist
                  /\ out[h1].pos = out[h2].pos => h1 = h2
            /\ \A p \in (0..(Len(flat_index) - 1)) \ returned :
                  \A h \in 1..Len(out) : out[h].dist <= dist(p)

C28_Witness ==
    /\ neighbours.done /\ Len(flat_index) = 3 /\ top_k = 2
    /\ Len(neighbours.out) = 2
    /\ neighbours.out[1].pos = 2 /\ neighbours.out[2].pos = 0
    /\ neighbours.out[1].dist < neighbours.out[2].dist

\* C29: isLoading is true exactly while an analysis request of handleAnalyze
\* is in flight.
C29_LoadingWhileInFlight == isLoading <=> in_flight > 0

\* C30: when the backend call of handleAnalyze fails, error is set to a
\* non-empty message, and the history, its localStorage copy, currentResult,
\* inputValue and the selected file stay as they are.
C30_FailureLeavesState ==
    [][rejected' > rejected =>
          /\ chatError' # ""
          /\ UNCHANGED <<history, analysis_history, currentResult, inputValue,
                         selectedFile>>]_vars

C30_Witness ==
    /\ rejected = 1 /\ in_flight = 0 /\ ~isLoading
    /\ chatError = FAILED_TO_ANALYZE
    /\ inputValue = <<"a">> /\ Len(history) = 1 /\ analysis_history = history
    /\ currentResult = history[1] /\ view.key = "input"

\* The text has an http(s) URL starting at index i: http:// or https://
\* followed by a character other than a blank.
UrlStartsAt(t, i) ==
    \/ StartsAt(t, HTTP, i) /\ i + 7 <= Len(t) /\ t[i + 7] # " "
    \/ StartsAt(t, HTTPS, i) /\ i + 8 <= Len(t) /\ t[i + 8] # " "

\* Index of the last character of the blank-free word of t that holds index i.
WordEnd(t, i) == Min({j \in i..Len(t) : j = Len(t) \/ t[j + 1] = " "})

\* C31: every request of handleAnalyze goes to one endpoint: /analyze_pdf for
\* a PDF and /analyze_image for another file, whatever the text; without a
\* file, /ask_web with the first URL of the text and the rest of the text as
\* the question ("Analyze this article" when nothing remains); /ask with the
\* text otherwise.
C31_EndpointRouting ==
    \A n \in 1..Len(requests) :
        LET req == requests[n]
            file == req.read.selectedFile
            t == trim(req.read.inputValue)
            starts == {i \in 1..Len(t) : UrlStartsAt(t, i)}
        IN  /\ file = "pdf" => req.endpoint = "/analyze_pdf" /\ req.body.file = "pdf"
            /\ file = "image" => req.endpoint = "/analyze_image" /\ req.body.file = "image"
            /\ file = "none" /\ starts # {} =>
                  LET i == Min(starts)
                      e == WordEnd(t, i)
                      rest == trim(SubSeq(t, 1, i - 1) \o SubSeq(t, e + 1, Len(t)))
                  IN  /\ req.endpoint = "/ask_web"
                      /\ req.body.url = SubSeq(t, i, e)
                      /\ req.body.question = IF rest = <<>> THEN ANALYZE_THIS_ARTICLE ELSE rest
            /\ file = "none" /\ starts = {} =>
                  req.endpoint = "/ask" /\ req.body.question = t

C31_Witness ==
    /\ Len(requests) = 1
    /\ requests[1].read = [inputValue |-> <<"a", " ">> \o HTTP \o <<"u">>,
                           selectedFile |-> "none"]
    /\ requests[1].endpoint = "/ask_web"
    /\ requests[1].body.url = HTTP \o <<"u">>
    /\ requests[1].body.question = <<"a">>
    /\ requests[1].body.session_id = "uuid-1"

\* C32: once a SHOW_LOADING message has been handled, whatever was closed
\* before it, the loading card is in a modal container attached to the page.
C32_LoadingShownOnPage ==
    (events # <<>> /\ events[Len(events)] = "SHOW_LOADING") =>
        (attached /\ card = "LOADING")

\* C33: the history holds at most 20 entries, the most recent first, the last
\* successful result (the first entry of the copy in localStorage) is its
\* first entry, and addToHistory leaves the copy "analysis_history" equal to it.
C33_HistoryNewestFirst ==
    /\ [](/\ Len(history) <= HistoryLimit
          /\ \A i, j \in 1..Len(history) : i < j => history[i].id > history[j].id
          /\ analysis_history # <<>> =>
                history # <<>> /\ history[1] = analysis_history[1])
    /\ [][analysis_history' # analysis_history => analysis_history' = history']_vars

\* C34: showResult is true only while currentResult is not null: the result
\* view is never shown without a result to display.
C34_ResultShownHasResult == showResult => currentResult # null

C34_Witness ==
    /\ showResult /\ view.key = "result"
    /\ Len(history) = 2 /\ currentResult = history[2]
    /\ in_flight = 0

\* C35: every verdict the two clients derive from an answer text is one of
\* FAKE, CREDIBLE, MISLEADING, UNCERTAIN.
C35_ClientVerdictRange ==
    \A v \in {extVerdict.text, extVerdict.variant, chatVerdict.text, chatVerdict.variant} :
        v = "none" \/ v \in {"FAKE", "CREDIBLE", "MISLEADING", "UNCERTAIN"}

\* C36: for every answer text for which ChatBox's extractVerdict yields FAKE,
\* MISLEADING or CREDIBLE, the extension's extractVerdict yields the same.
C36_ExtractorsAgree ==
    (extVerdict.text # "none" /\ chatVerdict.text \in {"FAKE", "MISLEADING", "CREDIBLE"}) =>
        extVerdict.text = chatVerdict.text

\* Number of entries of a call's log that are among the given ones.
Count(log, whats) == Cardinality({i \in 1..Len(log) : log[i] \in whats})

\* C37: every call of sendMessageToContentScript makes at most two send
\* attempts and at most one injection; it throws exactly when its first send
\* failed and then the injection or the second send failed, and returns
\* otherwise.
C37_SendWithOneInjection ==
    \A c \in Clicks : \A k \in 1..Len(calls[c]) :
        LET call == calls[c][k]
            failedAgain == call.log \in {<<"send failed", "inject failed">>,
                                         <<"send failed", "injected", "send failed">>}
        IN  /\ Count(call.log, {"sent", "send failed"}) <= 2
            /\ Count(call.log, {"injected", "inject failed"}) <= 1
            /\ call.outcome = "threw" <=> failedAgain
            /\ call.outcome = "returned" <=>
                  (call.log # <<>> /\ call.log[Len(call.log)] = "sent")
            /\ call.outcome = "running" =>
                  call.log \in {<<>>, <<"send failed">>, <<"send failed", "injected">>}

C37_Witness ==
    \E c \in Clicks :
        /\ Len(calls[c]) = 2
        /\ calls[c][1] = [log |-> <<"send failed", "injected", "send failed">>,
                          outcome |-> "threw"]
        /\ calls[c][2] = [log |-> <<"send failed", "injected", "sent">>,
                          outcome |-> "returned"]

\* C38: a session identifier is generated only when none is stored; a stored
\* one is kept, every later mount sets sessionId to it, and every request
\* carries it.
C38_SessionIdReused ==
    /\ [](\A n \in 1..Len(requests) :
            /\ fake_news_session_id # "null"
            /\ requests[n].body.session_id = fake_news_session_id)
    /\ [][generated' # generated => fake_news_session_id = "null"]_vars
    /\ [][fake_news_session_id # "null" =>
            /\ fake_news_session_id' = fake_news_session_id
            /\ mounts' # mounts => sessionId' = fake_news_session_id]_vars

C38_Witness ==
    /\ mounts = MaxMounts /\ generated = 1
    /\ fake_news_session_id = "uuid-1" /\ sessionId = "uuid-1"
    /\ Len(requests) = 1
    /\ requests[1].endpoint = "/analyze_pdf"
    /\ requests[1].body.session_id = "uuid-1"

\* The cache lookup of the request finds the store unreachable in this step.
CacheDown(r) ==
    LET entry == [stage |-> "CACHE_CHECK", kind |-> "StorageUnavailable"]
    IN  entry \notin absorbed[r] /\ entry \in absorbed'[r]

\* C39: a request whose cache lookup finds the Content Store unreachable goes
\* on to RAG_LOOKUP: it gets no cached answer and no error, and no other
\* request is touched.
C39_CacheTierSkipped ==
    [][\A r \in Requests :
          CacheDown(r) =>
              /\ stage[r] = "CACHE_CHECK" /\ stage'[r] = "RAG_LOOKUP"
              /\ response'[r] = <<>> /\ error'[r] = "none" /\ ragCalls'[r] = 0
              /\ \A o \in Requests \ {r} :
                    /\ stage'[o] = stage[o] /\ error'[o] = error[o]
                    /\ response'[o] = response[o]
              /\ UNCHANGED <<news_articles, fake_news_logs, web_embeddings, faiss, writer>>]_vars

C39_Witness ==
    \E r1, r2 \in Requests :
        /\ r1 # r2 /\ question[r1] = question[r2]
        /\ stage[r1] = "PERSISTED" /\ absorbed[r1] = {}
        /\ search_news_article(question[r2]) # {}
        /\ [stage |-> "CACHE_CHECK", kind |-> "StorageUnavailable"] \in absorbed[r2]
        /\ stage[r2] = "RAG_LOOKUP" /\ ragCalls[r2] = 0 /\ response[r2] = <<>>

====
